---- MODULE Spec2Model ----
(***************************************************************************)
(* Rank Resolution & Strategic Allocation Engine (ygy_data_setup.py,       *)
(* individual_rank_planner.py).                                            *)
(*                                                                         *)
(* The components are modelled each with its own specification:           *)
(*   SpecMove  the 60-day eligibility rule        (can_pcust_be_moved)     *)
(*   SpecRank  tree building and rank resolution     (get_paid_as_rank)    *)
(*   SpecOrder the same on the directories whose order is varied          *)
(*   SpecGqv   tree building and compressed volume   (calculate_gqv_3cl)   *)
(*   SpecLevels  hierarchy levels          (calculate_hierarchical_levels) *)
(*   SpecAssets  donors and placeable assets   (identify_strategic_assets) *)
(*   SpecLegs  the leg development planner              (suggest_leg_moves) *)
(*   SpecPlan  the volume reallocation planner                             *)
(* Volumes are whole volume units.  Python's None is the empty tuple <<>>  *)
(* and a present optional value v is <<v>>.                                *)
(***************************************************************************)
EXTENDS Integers, Sequences, FiniteSets, TLC

VARIABLES
    \* ---- eligibility rule -------------------------------------------------
    member_info,     \* the member record handed to can_pcust_be_moved
    current_date,    \* the as-of date, as a proleptic Gregorian ordinal
    move_result,     \* <<>> before the call, <<result dict>> after it
    \* ---- directory, tree, volume, ranks -----------------------------------
    team_data,       \* Member Directory: a sequence of [id, title, pqv, sponsor_id]
    rank_pc,         \* "idle" | "loaded" | "built" | "done"
    downline_tree,   \* parent id -> sorted sequence of child ids
    gqv_call,        \* <<>> or <<[member, outcome, total, visits]>>
    rank_call,       \* <<>> or <<[op, member, outcome, rank, cache, log, ...]>>
    \* ---- planner ----------------------------------------------------------
    volume_donors,   \* the donor pool: a sequence of [order_number, volume]
    pqv_gap,         \* the leader's personal-volume gap
    potential_legs,  \* the child gaps: a sequence of [id, pqv_gap]
    legs_gap,        \* how many more qualifying legs are needed
    plan_result,     \* <<>> or <<[op, suggestions]>>
    \* ---- hierarchy levels -------------------------------------------------
    levels_call,     \* <<>> or <<[outcome, root, levels]>>
    \* ---- strategic assets of a leader -------------------------------------
    leader_id,       \* the leader whose direct children are classified
    volume_details,  \* the order table: a sequence of [associate, autoship, order_number, volume]
    assets_result    \* <<>> or <<result dict of identify_strategic_assets>>

moveVars == <<member_info, current_date, move_result>>
rankVars == <<team_data, rank_pc, downline_tree, gqv_call, rank_call>>
planVars == <<volume_donors, pqv_gap, potential_legs, legs_gap, plan_result>>
levelVars == <<levels_call>>
assetVars == <<leader_id, volume_details, assets_result>>
vars == <<moveVars, rankVars, planVars, levelVars, assetVars>>

None == <<>>
Some(v) == <<v>>

Max(a, b) == IF a >= b THEN a ELSE b

(***************************************************************************)
(* Idle values of the components a specification does not exercise.        *)
(***************************************************************************)
MoveIdle ==
    /\ member_info = [title |-> <<>>, join_date |-> [kind |-> "absent"]]
    /\ current_date = 0
    /\ move_result = None

RankIdle ==
    /\ team_data = <<>>
    /\ rank_pc = "idle"
    /\ downline_tree = <<>>
    /\ gqv_call = None
    /\ rank_call = None

PlanIdle ==
    /\ volume_donors = <<>>
    /\ pqv_gap = 0
    /\ potential_legs = <<>>
    /\ legs_gap = 0
    /\ plan_result = None

LevelIdle == levels_call = None

AssetIdle ==
    /\ leader_id = 0
    /\ volume_details = <<>>
    /\ assets_result = None

(***************************************************************************)
(*                     60-DAY ELIGIBILITY RULE                             *)
(***************************************************************************)

\* ---- text: a title is a sequence of one-character strings ----------------
Upper(c) ==
    CASE c = "p" -> "P" [] c = "c" -> "C" [] c = "u" -> "U"
      [] c = "s" -> "S" [] c = "t" -> "T" [] c = "a" -> "A"
      [] OTHER -> c

UpperStr(s) == [i \in 1..Len(s) |-> Upper(s[i])]

RECURSIVE LStrip(_)
LStrip(s) == IF s # <<>> /\ Head(s) = " " THEN LStrip(Tail(s)) ELSE s

RECURSIVE RStrip(_)
RStrip(s) ==
    IF s # <<>> /\ s[Len(s)] = " " THEN RStrip(SubSeq(s, 1, Len(s) - 1)) ELSE s

Strip(s) == RStrip(LStrip(s))

PCUST_TITLE == <<"P", "C", "U", "S", "T">>

\* member_info.get('title', '').upper().strip()
NormTitle(info) == Strip(UpperStr(info.title))

\* ---- calendar: datetime.date of the standard library --------------------
IsLeap(y) == (y % 4 = 0) /\ ((y % 100 # 0) \/ (y % 400 = 0))

DaysInMonth(y, m) ==
    IF m = 2 THEN (IF IsLeap(y) THEN 29 ELSE 28)
    ELSE IF m \in {4, 6, 9, 11} THEN 30 ELSE 31

RECURSIVE DaysBeforeMonth(_, _)
DaysBeforeMonth(y, m) ==
    IF m = 1 THEN 0 ELSE DaysBeforeMonth(y, m - 1) + DaysInMonth(y, m - 1)

DaysBeforeYear(y) ==
    (y - 1) * 365 + ((y - 1) \div 4) - ((y - 1) \div 100) + ((y - 1) \div 400)

\* date(y, m, d).toordinal()
ToOrdinal(dt) == DaysBeforeYear(dt.y) + DaysBeforeMonth(dt.y, dt.m) + dt.d

\* ---- datetime.strptime on a text "a<sep>b<sep>c" --------------------------
\* A numeric field written with one or two digits fits %m / %d, one written
\* with four digits fits %Y; the date constructor then rejects a day beyond
\* the month's length.
FitsMonth(n) == n \in 1..12
FitsDay(n) == n \in 1..31
FitsYear(n) == n \in 1000..9999

MkDate(y, m, d) ==
    IF FitsYear(y) /\ FitsMonth(m) /\ FitsDay(d) /\ d <= DaysInMonth(y, m)
    THEN Some([y |-> y, m |-> m, d |-> d])
    ELSE None

\* one format attempt: <<date>> on success, <<>> on ValueError
Strptime(s, fmt) ==
    IF s.kind # "str" THEN None
    ELSE CASE fmt = "%m/%d/%Y" -> IF s.sep = "/" THEN MkDate(s.c, s.a, s.b) ELSE None
           [] fmt = "%Y-%m-%d" -> IF s.sep = "-" THEN MkDate(s.a, s.b, s.c) ELSE None
           [] fmt = "%m-%d-%Y" -> IF s.sep = "-" THEN MkDate(s.c, s.a, s.b) ELSE None
           [] fmt = "%d/%m/%Y" -> IF s.sep = "/" THEN MkDate(s.c, s.b, s.a) ELSE None

DATE_FORMATS == <<"%m/%d/%Y", "%Y-%m-%d", "%m-%d-%Y", "%d/%m/%Y">>

\* the for/else loop over the formats: the first one that parses wins
RECURSIVE TryFormats(_, _)
TryFormats(s, i) ==
    IF i > Len(DATE_FORMATS) THEN None
    ELSE IF Strptime(s, DATE_FORMATS[i]) # None THEN Strptime(s, DATE_FORMATS[i])
    ELSE TryFormats(s, i + 1)

MOVE_WINDOW_DAYS == 60

\* the comparison that decides movability
WithinWindowStrict(days_since) == days_since < MOVE_WINDOW_DAYS
WithinWindow(days_since) == days_since <= MOVE_WINDOW_DAYS

\* the early return for a member that is not a PCUST
TitleGuardOff(info) == FALSE
IsNotPcust(info) == NormTitle(info) # PCUST_TITLE

MoveDefault ==
    [can_move |-> FALSE, days_since_enrollment |-> None, days_remaining |-> 0,
     enrollment_date |-> None, reason |-> "Unknown"]

\* the tail of can_pcust_be_moved, once the enrollment date is known
MoveWindowResult(enrollment_date, today) ==
    LET days_since == today - ToOrdinal(enrollment_date)
        days_remaining == Max(0, MOVE_WINDOW_DAYS - days_since)
    IN  [can_move |-> WithinWindow(days_since),
         days_since_enrollment |-> Some(days_since),
         days_remaining |-> days_remaining,
         enrollment_date |-> Some(enrollment_date),
         reason |-> IF WithinWindow(days_since)
                    THEN "Within 60-day window" ELSE "Enrollment date exceeded 60-day window"]

can_pcust_be_moved(info, today) ==
    LET jd == info.join_date IN
    IF IsNotPcust(info)
    THEN [MoveDefault EXCEPT !.reason = "Not a PCUST - move rules do not apply"]
    ELSE IF jd.kind \in {"absent", "empty", "nan", "none"}
    THEN [MoveDefault EXCEPT !.reason = "No enrollment date available"]
    ELSE IF jd.kind \in {"str", "text"}
    THEN IF TryFormats(jd, 1) = None
         THEN [MoveDefault EXCEPT !.reason = "Cannot parse enrollment date"]
         ELSE MoveWindowResult(TryFormats(jd, 1)[1], today)
    ELSE IF jd.kind = "nat"
    THEN [MoveDefault EXCEPT !.reason = "Invalid enrollment date"]
    ELSE MoveWindowResult(jd.date, today)

\* ---- inputs ------------------------------------------------------------
Titles ==
    { <<"P", "C", "U", "S", "T">>, <<" ", "p", "c", "u", "s", "t", " ">>,
      <<"P", "c", "u", "s", "t">>, <<"A", "S", "C">>, <<>> }

MaxFieldIdx == 5
FieldPool == <<1, 2, 2024, 13, 30, 31, 2023, 12, 0, 99>>
FieldVals == { FieldPool[i] : i \in 1..(IF MaxFieldIdx <= Len(FieldPool) THEN MaxFieldIdx ELSE Len(FieldPool)) }

JoinDates ==
    { [kind |-> k] : k \in {"absent", "empty", "nan", "none", "text", "nat"} }
    \cup { [kind |-> "str", sep |-> sp, a |-> a, b |-> b, c |-> c] :
             sp \in {"/", "-"}, a \in FieldVals, b \in FieldVals, c \in FieldVals }
    \cup { [kind |-> "ts", date |-> [y |-> 2024, m |-> 1, d |-> 1]] }

AsOfBase == [y |-> 2024, m |-> 2, d |-> 28]
AsOfSpan == 4
AsOfDates == { ToOrdinal(AsOfBase) + k : k \in 0..AsOfSpan }

InitMove ==
    /\ member_info \in [title : Titles, join_date : JoinDates]
    /\ current_date \in AsOfDates
    /\ move_result = None
    /\ RankIdle
    /\ PlanIdle
    /\ LevelIdle
    /\ AssetIdle

CanPcustBeMoved ==
    /\ move_result = None
    /\ move_result' = Some(can_pcust_be_moved(member_info, current_date))
    /\ UNCHANGED <<member_info, current_date, rankVars, planVars,
                 levelVars, assetVars>>

NextMove == CanPcustBeMoved

SpecMove == InitMove /\ [][NextMove]_vars

(***************************************************************************)
(*                     VOLUME REALLOCATION PLANNER                         *)
(***************************************************************************)

\* one line of a suggestion list, as structured data
Entry(kind, order, to, amount) ==
    [kind |-> kind, order |-> order, to |-> to, amount |-> amount]

Note(kind, amount) == Entry(kind, 0, "", amount)

LEADER_ID == "L"

\* sorted(..., key=volume, reverse=True): stable, so equal volumes keep the
\* pool's order.  The element goes behind every element that is not smaller.
RECURSIVE InsertDesc(_, _)
InsertDesc(x, s) ==
    IF s = <<>> THEN <<x>>
    ELSE IF Head(s).volume >= x.volume THEN <<Head(s)>> \o InsertDesc(x, Tail(s))
    ELSE <<x>> \o s

\* the same sort with the comparison reversed (smallest first)
RECURSIVE SortedAscByVolume(_)
SortedAscByVolume(s) ==
    IF s = <<>> THEN <<>>
    ELSE LET r == SortedAscByVolume(SubSeq(s, 1, Len(s) - 1))
             x == s[Len(s)]
             RECURSIVE Ins(_)
             Ins(t) == IF t = <<>> THEN <<x>>
                       ELSE IF Head(t).volume <= x.volume THEN <<Head(t)>> \o Ins(Tail(t))
                       ELSE <<x>> \o t
         IN Ins(r)

RECURSIVE SortedByVolumeDesc(_)
SortedByVolumeDesc(s) ==
    IF s = <<>> THEN <<>>
    ELSE InsertDesc(s[Len(s)], SortedByVolumeDesc(SubSeq(s, 1, Len(s) - 1)))

\* sum(order['volume'] for order in orders)
RECURSIVE VolumeOf(_)
VolumeOf(orders) ==
    IF orders = <<>> THEN 0 ELSE Head(orders).volume + VolumeOf(Tail(orders))

MAX_MOVES == 5

\* `if move_count >= 5: break`
MoveCapReachedEarly(move_count) == move_count >= MAX_MOVES - 1
MoveCapReached(move_count) == move_count >= MAX_MOVES

\* the for loop of suggest_pqv_moves over the sorted orders
RECURSIVE PqvLoop(_, _, _, _, _, _)
PqvLoop(sorted, gap, to, total, move_count, moves) ==
    IF sorted = <<>> THEN [total |-> total, moves |-> moves]
    ELSE IF total >= gap THEN [total |-> total, moves |-> moves]
    ELSE IF Head(sorted).volume <= 0
    THEN PqvLoop(Tail(sorted), gap, to, total, move_count, moves)
    ELSE LET order == Head(sorted)
             total2 == total + order.volume
             moves2 == Append(moves, Entry("MOVE", order.order_number, to, order.volume))
         IN IF MoveCapReached(move_count + 1)
            THEN [total |-> total2, moves |-> moves2]
            ELSE PqvLoop(Tail(sorted), gap, to, total2, move_count + 1, moves2)

\* only a negative gap counts as satisfied (mutation of GapSatisfied)
GapSatisfiedBelowZero(gap) == gap < 0
\* `if pqv_gap <= 0` / the else branch of `if pqv_gap > 0`
GapSatisfied(gap) == gap <= 0

\* no shortfall is computed (mutation of RemainingGap)
RemainingGapDropped(gap, total) == 0
\* `remaining_gap = max(0, pqv_gap - total_suggested)`
RemainingGap(gap, total) == Max(0, gap - total)

suggest_pqv_moves(gap, donors, to) ==
    IF GapSatisfied(gap) THEN <<Note("OK", 0)>>
    ELSE IF donors = <<>> THEN <<Note("PERSONAL_ADD", gap)>>
    ELSE LET loop == PqvLoop(SortedByVolumeDesc(donors), gap, to, 0, 0, <<>>)
             remaining_gap == RemainingGap(gap, loop.total)
         IN <<Note("TARGET", gap)>> \o loop.moves
            \o (IF remaining_gap > 0 THEN <<Note("PERSONAL", remaining_gap)>> ELSE <<>>)
            \o <<Note("SOLUTION", loop.total + remaining_gap)>>

\* ---- generate_individual_move_strategy --------------------------------
\* the largest-first loop shared in shape by the personal and the leg part:
\* take orders until the running total reaches the gap
RECURSIVE TakeUntil(_, _, _)
TakeUntil(sorted, gap, running_total) ==
    IF sorted = <<>> \/ running_total >= gap THEN <<>>
    ELSE <<Head(sorted)>> \o TakeUntil(Tail(sorted), gap, running_total + Head(sorted).volume)

MovesTo(orders, kind, to) ==
    [i \in 1..Len(orders) |-> Entry(kind, orders[i].order_number, to, orders[i].volume)]

PersonalPart(gap, donors, to) ==
    IF GapSatisfied(gap) THEN <<>>
    ELSE LET available_volume == VolumeOf(donors)
             taken == TakeUntil(SortedByVolumeDesc(donors), gap, 0)
             remaining_gap == RemainingGap(gap, VolumeOf(taken))
         IN <<Note("PERSONAL_PQV", gap)>>
            \o (IF available_volume >= gap
                THEN <<Note("SOLUTION", 0)>> \o MovesTo(taken, "MOVE", to)
                     \o (IF remaining_gap > 0 THEN <<Note("PERSONAL", remaining_gap)>> ELSE <<>>)
                ELSE <<Note("ALERT", gap - available_volume)>>)
            \o <<Note("BLANK", 0)>>

\* list.remove(x): drops the first element equal to x
RECURSIVE RemoveFirst(_, _)
RemoveFirst(s, x) ==
    IF s = <<>> THEN <<>>
    ELSE IF Head(s) = x THEN Tail(s)
    ELSE <<Head(s)>> \o RemoveFirst(Tail(s), x)

RECURSIVE RemoveAll(_, _)
RemoveAll(s, xs) == IF xs = <<>> THEN s ELSE RemoveAll(RemoveFirst(s, Head(xs)), Tail(xs))

InSeq(x, s) == \E i \in 1..Len(s) : s[i] = x

RECURSIVE Filter(_, _)
Filter(s, drop) ==
    IF s = <<>> THEN <<>>
    ELSE IF InSeq(Head(s), drop) THEN Filter(Tail(s), drop)
    ELSE <<Head(s)>> \o Filter(Tail(s), drop)

\* s[:n]
Prefix(s, n) == SubSeq(s, 1, IF n <= Len(s) THEN n ELSE Len(s))

\* sorted(potential_legs, key=pqv_gap): stable, ascending
RECURSIVE InsertLeg(_, _)
InsertLeg(x, s) ==
    IF s = <<>> THEN <<x>>
    ELSE IF Head(s).pqv_gap <= x.pqv_gap THEN <<Head(s)>> \o InsertLeg(x, Tail(s))
    ELSE <<x>> \o s

RECURSIVE SortedByGap(_)
SortedByGap(legs) ==
    IF legs = <<>> THEN <<>>
    ELSE InsertLeg(legs[Len(legs)], SortedByGap(SubSeq(legs, 1, Len(legs) - 1)))

\* `[order for order in volume_donors if order not in volume_donors[:legs_gap]]`
LegPool(gap, donors, n) == Filter(donors, Prefix(donors, n))

\* the for loop over potential_legs_sorted[:legs_gap]
RECURSIVE LegLoop(_, _, _, _)
LegLoop(legs, available_for_legs, solved, recs) ==
    IF legs = <<>>
    THEN [solved |-> solved, recs |-> recs, available_for_legs |-> available_for_legs]
    ELSE LET leg == Head(legs)
             leg_volume_available == VolumeOf(available_for_legs)
             taken == TakeUntil(SortedByVolumeDesc(available_for_legs), leg.pqv_gap, 0)
             head == <<Entry("LEG", 0, leg.id, leg.pqv_gap), Note("LEG_STATUS", leg.pqv_gap)>>
         IN IF leg_volume_available >= leg.pqv_gap
            THEN LegLoop(Tail(legs), RemoveAll(available_for_legs, taken), solved + 1,
                         recs \o head \o <<Note("LEG_SOLUTION", 0)>>
                              \o MovesTo(taken, "LEG_MOVE", leg.id) \o <<Note("BLANK", 0)>>)
            ELSE LegLoop(Tail(legs), available_for_legs, solved,
                         recs \o head
                              \o <<Note("LEG_ALERT", leg.pqv_gap - leg_volume_available)>>
                              \o <<Note("BLANK", 0)>>)

LegsPart(gap, legs, n, donors) ==
    IF n <= 0 THEN <<>>
    ELSE LET loop == LegLoop(Prefix(SortedByGap(legs), n), LegPool(gap, donors, n), 0, <<>>)
         IN <<Note("QUALIFYING_LEGS", n)>> \o loop.recs
            \o <<Note(IF loop.solved >= n THEN "SUCCESS" ELSE "PARTIAL", loop.solved)>>
            \o <<Note("BLANK", 0)>>

IsMove(entry) == entry.kind \in {"MOVE", "LEG_MOVE"}

generate_individual_move_strategy(to, gap, legs, n, donors) ==
    LET body == <<Note("STRATEGY", 0), Note("BLANK", 0)>>
                \o PersonalPart(gap, donors, to)
                \o LegsPart(gap, legs, n, donors)
        total_moves == Cardinality({i \in 1..Len(body) : IsMove(body[i])})
    IN body \o <<Note("SUMMARY", total_moves), Note("OUTCOME", 0)>>

\* ---- inputs ------------------------------------------------------------
MaxPool == 6
MaxLegPool == 3
MaxLegs == 2
Volumes == {0, 40, 60, 70}
Gaps == {0, 100, 250}
LegGaps == {0, 50, 100}
LegIds == <<"A", "B", "C", "D">>

\* a pool holding the given volumes: order numbers are the positions
PoolOf(v) == [i \in 1..Len(v) |-> [order_number |-> i, volume |-> v[i]]]

Pools(n) == UNION { { PoolOf(v) : v \in [1..k -> Volumes] } : k \in 0..n }

\* the pools of the worked scenarios: {40, 70} and {60, 60, 39}
ScenarioPools ==
    { PoolOf(v) : v \in { <<40, 70>>, <<70, 40>>, <<60, 60, 39>>, <<39, 60, 60>>,
                          <<60, 39, 60>> } }

LegLists(n) ==
    UNION { { [i \in 1..k |-> [id |-> LegIds[i], pqv_gap |-> g[i]]] :
                g \in [1..k -> LegGaps] } : k \in 0..n }

InitPlan ==
    /\ MoveIdle
    /\ RankIdle
    /\ LevelIdle
    /\ AssetIdle
    /\ pqv_gap \in Gaps
    /\ plan_result = None
    /\ \/ /\ volume_donors \in Pools(MaxPool) \cup ScenarioPools
          /\ potential_legs = <<>>
          /\ legs_gap = 0
       \/ /\ volume_donors \in Pools(MaxLegPool)
          /\ potential_legs \in LegLists(MaxLegs)
          /\ legs_gap \in 0..MaxLegs

\* the list the call works on is the caller's list itself (mutation of
\* DonorsAfterCall)
WorkingListIsCallersList(donors, working) == working

\* the caller's volume_donors when the call is over: sorted() and the list
\* comprehensions build new lists, and .remove() and .append() act on those
DonorsAfterCall(donors, working) == donors

\* the working list is sorted_orders
SuggestPqvMoves ==
    /\ plan_result = None
    /\ plan_result' = Some([op |-> "suggest_pqv_moves",
                            out |-> suggest_pqv_moves(pqv_gap, volume_donors, LEADER_ID)])
    /\ volume_donors' = DonorsAfterCall(volume_donors, SortedByVolumeDesc(volume_donors))
    /\ UNCHANGED <<pqv_gap, potential_legs, legs_gap, moveVars, rankVars, levelVars,
                 assetVars>>

\* the working list is available_for_legs after the orders given to the legs
\* were removed from it
GenerateIndividualMoveStrategy ==
    /\ plan_result = None
    /\ plan_result' = Some([op |-> "generate_individual_move_strategy",
                            out |-> generate_individual_move_strategy(
                                       LEADER_ID, pqv_gap, potential_legs, legs_gap,
                                       volume_donors)])
    /\ volume_donors' =
          DonorsAfterCall(volume_donors,
                          IF legs_gap <= 0 THEN SortedByVolumeDesc(volume_donors)
                          ELSE LegLoop(Prefix(SortedByGap(potential_legs), legs_gap),
                                       LegPool(pqv_gap, volume_donors, legs_gap), 0,
                                       <<>>).available_for_legs)
    /\ UNCHANGED <<pqv_gap, potential_legs, legs_gap, moveVars, rankVars, levelVars,
                 assetVars>>

NextPlan == SuggestPqvMoves \/ GenerateIndividualMoveStrategy

SpecPlan == InitPlan /\ [][NextPlan]_vars

(***************************************************************************)
(*           DIRECTORY, DOWNLINE TREE, COMPRESSED VOLUME, RANKS            *)
(***************************************************************************)

\* A blank sponsor field ('' / 'nan') and a sponsor outside the directory.
NO_SPONSOR == 0
EXTERNAL_ID == 99

\* team_data keeps insertion order: a sequence of member records
Ids(td) == { td[i].id : i \in 1..Len(td) }
Info(td, member_id) == td[CHOOSE i \in 1..Len(td) : td[i].id = member_id]

\* downline_tree.get(member_id, [])
TreeGet(tree, member_id) ==
    IF member_id \in DOMAIN tree THEN tree[member_id] ELSE <<>>

\* the dictionary d after d[k] = v
Put(d, k, v) == [x \in DOMAIN d \cup {k} |-> IF x = k THEN v ELSE d[x]]

RECURSIVE InsertId(_, _)
InsertId(x, s) ==
    IF s = <<>> \/ x <= Head(s) THEN <<x>> \o s
    ELSE <<Head(s)>> \o InsertId(x, Tail(s))

\* the list is left in insertion order (mutation of SortIds)
Unsorted(s) == s
\* list.sort() on a list of ids
RECURSIVE SortIds(_)
SortIds(s) == IF s = <<>> THEN <<>> ELSE InsertId(Head(s), SortIds(Tail(s)))

\* the loop over team_data.items()
RECURSIVE BuildLoop(_, _, _)
BuildLoop(td, i, tree) ==
    IF i > Len(td) THEN tree
    ELSE LET member == td[i]
             sponsor_id == member.sponsor_id
             listed == TreeGet(tree, sponsor_id)
         IN  IF sponsor_id = NO_SPONSOR THEN BuildLoop(td, i + 1, tree)
             ELSE BuildLoop(td, i + 1,
                      Put(tree, sponsor_id,
                          IF \E j \in 1..Len(listed) : listed[j] = member.id
                          THEN listed ELSE Append(listed, member.id)))

build_downline_tree(td) ==
    LET tree == BuildLoop(td, 1, <<>>)
    IN  [sponsor_id \in DOMAIN tree |-> SortIds(tree[sponsor_id])]

\* ---- compressed group volume ---------------------------------------------
QUALIFYING_PQV == 50
MAX_LEVELS == 3
\* the interpreter's recursion limit, scaled to the directories explored:
\* every traversal of an acyclic directory is shallower than this
RECURSION_LIMIT == 12

GqvZero == [ok |-> TRUE, total |-> 0, visits |-> <<>>]
GqvRecursionError == [ok |-> FALSE, total |-> 0, visits |-> <<>>]

\* only a volume from 50 up to 99 is counted (mutation of CountsAtLevel)
CountsBelowHundredOnly(sponsee_pqv) == sponsee_pqv >= 50 /\ sponsee_pqv < 100
\* `if sponsee_pqv >= 50.0`
CountsAtLevel(sponsee_pqv) == sponsee_pqv >= QUALIFYING_PQV

RECURSIVE traverse_compressed_levels(_, _, _, _, _)
RECURSIVE SponseeLoop(_, _, _, _, _)

\* visits lists every sponsee the loop examines, in order
traverse_compressed_levels(current_id, current_level, td, tree, depth) ==
    IF depth > RECURSION_LIMIT THEN GqvRecursionError
    ELSE IF current_level > MAX_LEVELS THEN GqvZero
    ELSE SponseeLoop(TreeGet(tree, current_id), current_level, td, tree, depth)

SponseeLoop(direct_sponsees, current_level, td, tree, depth) ==
    IF direct_sponsees = <<>> THEN GqvZero
    ELSE LET sponsee_id == Head(direct_sponsees)
             rest == SponseeLoop(Tail(direct_sponsees), current_level, td, tree, depth)
         IN  IF sponsee_id \notin Ids(td) THEN rest
             ELSE LET sponsee_pqv == Info(td, sponsee_id).pqv
                      counted == CountsAtLevel(sponsee_pqv)
                      below == traverse_compressed_levels(
                                   sponsee_id,
                                   IF counted THEN current_level + 1 ELSE current_level,
                                   td, tree, depth + 1)
                  IN  IF ~below.ok \/ ~rest.ok THEN GqvRecursionError
                      ELSE [ok |-> TRUE,
                            total |-> (IF counted THEN sponsee_pqv ELSE 0)
                                      + below.total + rest.total,
                            visits |-> <<sponsee_id>> \o below.visits \o rest.visits]

calculate_gqv_3cl(member_id, td, tree) ==
    traverse_compressed_levels(member_id, 1, td, tree, 1)

\* ---- ranks -----------------------------------------------------------------
RANK_HIERARCHY ==
    <<"PCUST", "ASC", "BRA", "SA", "SRA", "1SE", "2SE", "3SE", "4SE", "5SE",
      "EA", "RA", "DA", "BDA">>

Req(p, g, n, r) ==
    [min_pqv |-> p, min_gqv_3cl |-> g, min_qualified_legs |-> n,
     leg_rank_requirement |-> r]

RANK_REQUIREMENTS ==
    [rank \in { RANK_HIERARCHY[i] : i \in 1..Len(RANK_HIERARCHY) } |->
        CASE rank = "PCUST" -> Req(0, 0, 0, "None")
          [] rank = "ASC"   -> Req(50, 0, 0, "None")
          [] rank = "BRA"   -> Req(100, 0, 0, "None")
          [] rank = "SA"    -> Req(150, 0, 3, "ASC")
          [] rank = "SRA"   -> Req(200, 1000, 3, "BRA")
          [] rank = "1SE"   -> Req(250, 5400, 3, "SA")
          [] rank = "2SE"   -> Req(300, 7500, 3, "1SE")
          [] rank = "3SE"   -> Req(300, 10500, 5, "1SE")
          [] rank = "4SE"   -> Req(300, 27000, 6, "1SE")
          [] rank = "5SE"   -> Req(300, 43200, 9, "1SE")
          [] rank = "EA"    -> Req(300, 75000, 12, "1SE")
          [] rank = "RA"    -> Req(300, 150000, 15, "1SE")
          [] rank = "DA"    -> Req(300, 300000, 18, "1SE")
          [] rank = "BDA"   -> Req(300, 600000, 21, "1SE")]

\* RANK_HIERARCHY.index(rank), 0 when the rank is not in the hierarchy
get_rank_level(rank) ==
    IF \E i \in 1..Len(RANK_HIERARCHY) : RANK_HIERARCHY[i] = rank
    THEN (CHOOSE i \in 1..Len(RANK_HIERARCHY) : RANK_HIERARCHY[i] = rank) - 1
    ELSE 0

\* calculated_ranks.get(sponsee_id, 'PCUST')
CacheGet(calculated_ranks, member_id) ==
    IF member_id \in DOMAIN calculated_ranks THEN calculated_ranks[member_id]
    ELSE "PCUST"

\* the qualified-legs loop of meets_rank_requirements
QualifiedLegs(member_id, required_leg_level, tree, calculated_ranks) ==
    LET direct_sponsees == TreeGet(tree, member_id)
    IN  Cardinality({ j \in 1..Len(direct_sponsees) :
            get_rank_level(CacheGet(calculated_ranks, direct_sponsees[j]))
                >= required_leg_level })

\* the legs requirement is not checked (mutation of LegsRequirementMet)
LegsRequirementSkipped(member_id, requirements, tree, calculated_ranks) == TRUE
LegsRequirementMet(member_id, requirements, tree, calculated_ranks) ==
    IF requirements.min_qualified_legs > 0
    THEN LET required_leg_rank == requirements.leg_rank_requirement
             required_leg_level ==
                 IF required_leg_rank # "None" THEN get_rank_level(required_leg_rank)
                 ELSE 0
         IN  QualifiedLegs(member_id, required_leg_level, tree, calculated_ranks)
                 >= requirements.min_qualified_legs
    ELSE TRUE

\* the personal-volume test reversed (mutation of PqvRequirementMet)
PqvRequirementReversed(member_pqv, requirements) ==
    ~(member_pqv > requirements.min_pqv)
\* `if member_pqv < requirements['min_pqv']: return False`
PqvRequirementMet(member_pqv, requirements) ==
    ~(member_pqv < requirements.min_pqv)

\* the volume traversal always returns here: get_paid_as_rank has already
\* walked the whole downline of member_id when it tests the requirements
meets_rank_requirements(member_id, target_rank, td, tree, calculated_ranks) ==
    IF target_rank \notin DOMAIN RANK_REQUIREMENTS THEN FALSE
    ELSE LET requirements == RANK_REQUIREMENTS[target_rank]
             member_pqv == IF member_id \in Ids(td) THEN Info(td, member_id).pqv ELSE 0
         IN  IF ~PqvRequirementMet(member_pqv, requirements) THEN FALSE
             ELSE IF calculate_gqv_3cl(member_id, td, tree).total
                         < requirements.min_gqv_3cl THEN FALSE
             ELSE LegsRequirementMet(member_id, requirements, tree, calculated_ranks)

RankRecursionError == [ok |-> FALSE, rank |-> "", cache |-> <<>>, log |-> <<>>]

\* one step of a resolution pass, with the cache as it is at that step:
\* "hit" (the cached rank is returned), "eval" (the requirements of the
\* member are about to be evaluated against the cache) or "write"
RankEvent(ev, member_id, rank, calculated_ranks) ==
    [ev |-> ev, member |-> member_id, rank |-> rank, cache |-> calculated_ranks]

\* the cache is never consulted (mutation of IsCached)
CacheNeverHit(member_id, calculated_ranks) == FALSE
\* `if member_id in calculated_ranks`
IsCached(member_id, calculated_ranks) == member_id \in DOMAIN calculated_ranks

\* the requirements are evaluated against the cache as it was before the
\* sponsees were resolved (mutation of EvaluationCache)
CacheBeforeSponsees(calculated_ranks, below_cache) == calculated_ranks
\* the one cache object is shared by the recursive calls: the requirements
\* see it as the sponsee loop leaves it
EvaluationCache(calculated_ranks, below_cache) == below_cache

\* the title is not consulted (mutation of IsPcustTitle)
TitleIgnored(info) == FALSE
\* `member_info.get('title', '').upper().strip() == 'PCUST'`
IsPcustTitle(info) == NormTitle(info) = PCUST_TITLE

\* `for rank in reversed(RANK_HIERARCHY)`, from position i downwards
RECURSIVE ScanRanks(_, _, _, _, _)
ScanRanks(i, member_id, td, tree, calculated_ranks) ==
    IF i = 0 THEN "PCUST"
    ELSE IF meets_rank_requirements(member_id, RANK_HIERARCHY[i], td, tree,
                                    calculated_ranks)
         THEN RANK_HIERARCHY[i]
         ELSE ScanRanks(i - 1, member_id, td, tree, calculated_ranks)

RECURSIVE RankRec(_, _, _, _, _)
RECURSIVE RankSponsees(_, _, _, _, _)

\* get_paid_as_rank at recursion depth `depth`: the outcome, the rank
\* returned, the cache as the call leaves it and the steps it went through
RankRec(member_id, td, tree, calculated_ranks, depth) ==
    IF depth > RECURSION_LIMIT THEN RankRecursionError
    ELSE IF IsCached(member_id, calculated_ranks)
    THEN [ok |-> TRUE, rank |-> calculated_ranks[member_id], cache |-> calculated_ranks,
          log |-> <<RankEvent("hit", member_id, calculated_ranks[member_id],
                              calculated_ranks)>>]
    ELSE IF member_id \notin Ids(td)
    THEN [ok |-> TRUE, rank |-> "PCUST", cache |-> Put(calculated_ranks, member_id, "PCUST"),
          log |-> <<RankEvent("write", member_id, "PCUST", calculated_ranks)>>]
    ELSE LET below == RankSponsees(TreeGet(tree, member_id), td, tree,
                                   calculated_ranks, depth + 1)
             seen == EvaluationCache(calculated_ranks, below.cache)
             is_pcust == IsPcustTitle(Info(td, member_id))
             member_rank ==
                 IF is_pcust THEN "PCUST"
                 ELSE ScanRanks(Len(RANK_HIERARCHY), member_id, td, tree, seen)
         IN  IF ~below.ok THEN RankRecursionError
             ELSE [ok |-> TRUE, rank |-> member_rank,
                   cache |-> Put(below.cache, member_id, member_rank),
                   log |-> below.log
                           \o (IF is_pcust THEN <<>>
                               ELSE <<RankEvent("eval", member_id, member_rank, seen)>>)
                           \o <<RankEvent("write", member_id, member_rank, below.cache)>>]

\* the sponsees are not resolved first (mutation of RankSponsees)
SponseesNotResolved(direct_sponsees, td, tree, calculated_ranks, depth) ==
    [ok |-> TRUE, rank |-> "", cache |-> calculated_ranks, log |-> <<>>]
\* `for sponsee_id in direct_sponsees: get_paid_as_rank(sponsee_id, ...)`
RankSponsees(direct_sponsees, td, tree, calculated_ranks, depth) ==
    IF direct_sponsees = <<>>
    THEN [ok |-> TRUE, rank |-> "", cache |-> calculated_ranks, log |-> <<>>]
    ELSE LET first == RankRec(Head(direct_sponsees), td, tree, calculated_ranks, depth)
             rest == RankSponsees(Tail(direct_sponsees), td, tree, first.cache, depth)
         IN  IF ~first.ok \/ ~rest.ok THEN RankRecursionError
             ELSE [rest EXCEPT !.log = first.log \o rest.log]

get_paid_as_rank(member_id, td, tree, calculated_ranks) ==
    RankRec(member_id, td, tree, calculated_ranks, 1)

\* the loop over team_data.keys(), sharing one cache
RECURSIVE AllRanksLoop(_, _, _, _)
AllRanksLoop(i, td, tree, calculated_ranks) ==
    IF i > Len(td) THEN [ok |-> TRUE, rank |-> "", cache |-> calculated_ranks, log |-> <<>>]
    ELSE LET r == get_paid_as_rank(td[i].id, td, tree, calculated_ranks)
             rest == AllRanksLoop(i + 1, td, tree, r.cache)
         IN  IF ~r.ok \/ ~rest.ok THEN RankRecursionError
             ELSE [rest EXCEPT !.log = r.log \o rest.log]

calculate_all_ranks(td, tree) == AllRanksLoop(1, td, tree, <<>>)

\* ---- inputs ------------------------------------------------------------
MaxLoop == 2    \* members of a directory with arbitrary sponsor references
MaxTeam == 4    \* members of a one-root team
MaxDeep == 5    \* members of a deep, narrow downline

CUSTOMER_TITLE == <<"p", "c", "u", "s", "t">>
DISTRIBUTOR_TITLE == <<"D", "I", "S", "T">>

Profile(title, pqv) == [title |-> title, pqv |-> pqv]
LoopProfiles ==
    { Profile(DISTRIBUTOR_TITLE, 40), Profile(DISTRIBUTOR_TITLE, 150),
      Profile(CUSTOMER_TITLE, 500) }
TeamProfiles ==
    { Profile(DISTRIBUTOR_TITLE, 50), Profile(DISTRIBUTOR_TITLE, 150),
      Profile(DISTRIBUTOR_TITLE, 500), Profile(CUSTOMER_TITLE, 500) }
DeepProfiles == { Profile(DISTRIBUTOR_TITLE, v) : v \in {40, 50, 100} }

Directory(k, profile, sponsor) ==
    [i \in 1..k |-> [id |-> i, title |-> profile[i].title, pqv |-> profile[i].pqv,
                     sponsor_id |-> sponsor[i]]]

\* any sponsor reference: blank, outside the directory, any member, itself
GeneralDirs(n) ==
    UNION { { Directory(k, p, s) :
                p \in [1..k -> LoopProfiles],
                s \in [1..k -> {NO_SPONSOR, EXTERNAL_ID} \cup 1..k] } : k \in 0..n }

\* member 1 heads the team; every other member is sponsored by member 1 or
\* by the member listed just before it
TeamDirs(n) ==
    UNION { { Directory(k, p, s) :
                p \in [1..k -> TeamProfiles],
                s \in { f \in [1..k -> {EXTERNAL_ID} \cup 1..k] :
                          /\ f[1] = EXTERNAL_ID
                          /\ \A i \in 2..k : f[i] \in {1, i - 1} } } : k \in 1..n }

\* every member is sponsored by one of the two members listed before it
DeepDirs(n) ==
    UNION { { Directory(k, p, s) :
                p \in [1..k -> DeepProfiles],
                s \in { f \in [1..k -> {EXTERNAL_ID} \cup 1..k] :
                          /\ f[1] = EXTERNAL_ID
                          /\ \A i \in 2..k : f[i] \in {i - 1, Max(1, i - 2)} } } : k \in 3..n }

\* the teams of TeamDirs whose members are distributors with volume 50 or 150
OrderDirs(n) ==
    { td \in TeamDirs(n) :
        \A i \in 1..Len(td) : td[i].title = DISTRIBUTOR_TITLE /\ td[i].pqv \in {50, 150} }

InitDirectory ==
    /\ rank_pc = "loaded"
    /\ downline_tree = <<>>
    /\ gqv_call = None
    /\ rank_call = None
    /\ MoveIdle
    /\ PlanIdle
    /\ AssetIdle

InitRank ==
    /\ team_data \in GeneralDirs(MaxLoop) \cup TeamDirs(MaxTeam)
    /\ InitDirectory
    /\ LevelIdle

InitGqv ==
    /\ team_data \in GeneralDirs(MaxLoop) \cup DeepDirs(MaxDeep)
    /\ InitDirectory
    /\ LevelIdle

BuildDownlineTree ==
    /\ rank_pc = "loaded"
    /\ downline_tree' = build_downline_tree(team_data)
    /\ rank_pc' = "built"
    /\ UNCHANGED <<team_data, gqv_call, rank_call, moveVars, planVars,
                 levelVars, assetVars>>

CalculateGqv3cl ==
    /\ rank_pc = "built"
    /\ \E member_id \in Ids(team_data) :
          LET r == calculate_gqv_3cl(member_id, team_data, downline_tree)
          IN  gqv_call' = Some([member |-> member_id,
                                outcome |-> IF r.ok THEN "returned" ELSE "RecursionError",
                                total |-> r.total, visits |-> r.visits])
    /\ rank_pc' = "done"
    /\ UNCHANGED <<team_data, downline_tree, rank_call, moveVars, planVars,
                 levelVars, assetVars>>

\* a call with a fresh cache, for a member or for an id outside the directory
GetPaidAsRank ==
    /\ rank_pc = "built"
    /\ \E member_id \in Ids(team_data) \cup {EXTERNAL_ID} :
          LET r == get_paid_as_rank(member_id, team_data, downline_tree, <<>>)
          IN  rank_call' = Some([op |-> "get_paid_as_rank", member |-> member_id,
                                 outcome |-> IF r.ok THEN "returned" ELSE "RecursionError",
                                 rank |-> r.rank, cache |-> r.cache, log |-> r.log])
    /\ rank_pc' = "done"
    /\ UNCHANGED <<team_data, downline_tree, gqv_call, moveVars, planVars,
                 levelVars, assetVars>>

CalculateAllRanks ==
    /\ rank_pc = "built"
    /\ LET r == calculate_all_ranks(team_data, downline_tree)
       IN  rank_call' = Some([op |-> "calculate_all_ranks", member |-> NO_SPONSOR,
                              outcome |-> IF r.ok THEN "returned" ELSE "RecursionError",
                              rank |-> r.rank, cache |-> r.cache, log |-> r.log])
    /\ rank_pc' = "done"
    /\ UNCHANGED <<team_data, downline_tree, gqv_call, moveVars, planVars,
                 levelVars, assetVars>>

NextRank == BuildDownlineTree \/ GetPaidAsRank \/ CalculateAllRanks

SpecRank == InitRank /\ [][NextRank]_vars

\* the same operations on the directories on which the iteration order of
\* the directory is varied
InitOrder ==
    /\ team_data \in GeneralDirs(MaxLoop) \cup OrderDirs(MaxTeam)
    /\ InitDirectory
    /\ LevelIdle

SpecOrder == InitOrder /\ [][NextRank]_vars

NextGqv == BuildDownlineTree \/ CalculateGqv3cl

SpecGqv == InitGqv /\ [][NextGqv]_vars

\* ---- qualification analysis ----------------------------------------------
\* leg_analysis[rank]: the direct sponsees whose resolved rank is at least rank
LegAnalysis(member_id, rank, tree, calculated_ranks) ==
    QualifiedLegs(member_id, get_rank_level(rank), tree, calculated_ranks)

\* `for rank in RANK_HIERARCHY[current_level + 1:]`: the first rank with a
\* positive gap; k is the position of the rank in the hierarchy
RECURSIVE NextAchievable(_, _, _, _, _, _)
NextAchievable(k, member_id, member_pqv, member_gqv_3cl, tree, calculated_ranks) ==
    IF k > Len(RANK_HIERARCHY) THEN [next_achievable_rank |-> None, gaps_to_next_rank |-> None]
    ELSE LET rank == RANK_HIERARCHY[k]
             requirements == RANK_REQUIREMENTS[rank]
             gap == Max(0, requirements.min_pqv - member_pqv)
             gqv_gap == Max(0, requirements.min_gqv_3cl - member_gqv_3cl)
             leg_gap ==
                 IF requirements.min_qualified_legs > 0
                 THEN Max(0, requirements.min_qualified_legs
                               - LegAnalysis(member_id, requirements.leg_rank_requirement,
                                             tree, calculated_ranks))
                 ELSE 0
         IN  IF gap > 0 \/ gqv_gap > 0 \/ leg_gap > 0
             THEN [next_achievable_rank |-> Some(rank),
                   gaps_to_next_rank |-> Some([pqv_gap |-> gap, gqv_gap |-> gqv_gap,
                                               leg_gap |-> leg_gap])]
             ELSE NextAchievable(k + 1, member_id, member_pqv, member_gqv_3cl, tree,
                                 calculated_ranks)

analyze_member_qualifications(member_id, td, tree, calculated_ranks) ==
    IF member_id \notin Ids(td)
    THEN [ok |-> TRUE, error |-> Some("Member not found"), current_rank |-> "",
          next_achievable_rank |-> None, gaps_to_next_rank |-> None]
    ELSE LET current_rank == CacheGet(calculated_ranks, member_id)
             gqv == calculate_gqv_3cl(member_id, td, tree)
             next == NextAchievable(get_rank_level(current_rank) + 2, member_id,
                                    Info(td, member_id).pqv, gqv.total, tree,
                                    calculated_ranks)
         IN  [ok |-> gqv.ok, error |-> None, current_rank |-> current_rank,
              next_achievable_rank |-> next.next_achievable_rank,
              gaps_to_next_rank |-> next.gaps_to_next_rank]

\* the analysis of one member, or of an id outside the directory, with the
\* ranks of calculate_all_ranks on the same directory
AnalyzeMemberQualifications ==
    /\ rank_pc = "built"
    /\ \E member_id \in Ids(team_data) \cup {EXTERNAL_ID} :
          LET r == calculate_all_ranks(team_data, downline_tree)
              a == analyze_member_qualifications(member_id, team_data, downline_tree,
                                                 r.cache)
          IN  rank_call' =
                Some(IF r.ok /\ a.ok
                     THEN [op |-> "analyze_member_qualifications", member |-> member_id,
                           outcome |-> "returned", rank |-> a.current_rank,
                           cache |-> r.cache, log |-> r.log, error |-> a.error,
                           next_achievable_rank |-> a.next_achievable_rank,
                           gaps_to_next_rank |-> a.gaps_to_next_rank]
                     ELSE [op |-> "analyze_member_qualifications", member |-> member_id,
                           outcome |-> "RecursionError", rank |-> "", cache |-> <<>>,
                           log |-> <<>>, error |-> None, next_achievable_rank |-> None,
                           gaps_to_next_rank |-> None])
    /\ rank_pc' = "done"
    /\ UNCHANGED <<team_data, downline_tree, gqv_call, moveVars, planVars,
                 levelVars, assetVars>>

NextAnalysis == BuildDownlineTree \/ AnalyzeMemberQualifications

SpecAnalysis == InitRank /\ [][NextAnalysis]_vars

(***************************************************************************)
(*                          HIERARCHY LEVELS                               *)
(***************************************************************************)

\* a member with no sponsor or with a sponsor outside the directory
IsRootCandidate(td, member) ==
    member.sponsor_id = NO_SPONSOR \/ member.sponsor_id \notin Ids(td)

\* the first root candidate in directory order, from position i on
RECURSIVE FirstRoot(_, _)
FirstRoot(td, i) ==
    IF i > Len(td) THEN None
    ELSE IF IsRootCandidate(td, td[i]) THEN Some(td[i].id)
    ELSE FirstRoot(td, i + 1)

find_organizational_root(td) == FirstRoot(td, 1)

\* the sponsees are queued at the level of their sponsor (mutation of Enqueued)
EnqueuedAtSameLevel(current, levels, tree) ==
    LET sponsees == TreeGet(tree, current.id)
        fresh == SelectSeq(sponsees, LAMBDA sponsee_id : sponsee_id \notin DOMAIN levels)
    IN  [j \in 1..Len(fresh) |-> [id |-> fresh[j], level |-> current.level]]
\* the sponsees of current_id that have no level yet, one level further down
Enqueued(current, levels, tree) ==
    LET sponsees == TreeGet(tree, current.id)
        fresh == SelectSeq(sponsees, LAMBDA sponsee_id : sponsee_id \notin DOMAIN levels)
    IN  [j \in 1..Len(fresh) |-> [id |-> fresh[j], level |-> current.level + 1]]

\* the breadth-first `while queue` loop; a level is a number of tenths
\* (0.1 is 1, 0.2 is 2), as round(current_level + 0.1, 1) keeps it
RECURSIVE LevelLoop(_, _, _)
LevelLoop(queue, levels, tree) ==
    IF queue = <<>> THEN levels
    ELSE LET current == Head(queue)
             levels2 == Put(levels, current.id, current.level)
         IN  LevelLoop(Tail(queue) \o Enqueued(current, levels2, tree), levels2, tree)

\* The return value is the levels mapping alone: an empty mapping when no
\* root is found (after a printed warning), nothing is raised, and no
\* member is named as unassigned, so `orphans` is always empty.
calculate_hierarchical_levels(td, tree) ==
    LET root_id == FirstRoot(td, 1)
    IN  IF root_id = None
        THEN [outcome |-> "returned", levels |-> <<>>, orphans |-> {}]
        ELSE [outcome |-> "returned",
              levels |-> LevelLoop(<<[id |-> root_id[1], level |-> 0]>>, <<>>, tree),
              orphans |-> {}]

InitLevels ==
    /\ team_data \in GeneralDirs(MaxLoop) \cup DeepDirs(MaxDeep)
    /\ InitDirectory
    /\ LevelIdle

CalculateHierarchicalLevels ==
    /\ rank_pc = "built"
    /\ levels_call = None
    /\ LET r == calculate_hierarchical_levels(team_data, downline_tree)
       IN  levels_call' = Some([op |-> "calculate_hierarchical_levels",
                                outcome |-> r.outcome,
                                root |-> find_organizational_root(team_data),
                                levels |-> r.levels, orphans |-> r.orphans])
    /\ rank_pc' = "done"
    /\ UNCHANGED <<team_data, downline_tree, gqv_call, rank_call, moveVars, planVars,
                   assetVars>>

FindOrganizationalRoot ==
    /\ rank_pc = "built"
    /\ levels_call = None
    /\ levels_call' = Some([op |-> "find_organizational_root",
                            outcome |-> "returned",
                            root |-> find_organizational_root(team_data),
                            levels |-> <<>>, orphans |-> {}])
    /\ rank_pc' = "done"
    /\ UNCHANGED <<team_data, downline_tree, gqv_call, rank_call, moveVars, planVars,
                   assetVars>>

NextLevels == BuildDownlineTree \/ CalculateHierarchicalLevels \/ FindOrganizationalRoot

SpecLevels == InitLevels /\ [][NextLevels]_vars

(***************************************************************************)
(*                     STRATEGIC ASSET CLASSIFIER                          *)
(***************************************************************************)

\* the rows of the order table of one associate that are not on autoship,
\* as donor entries
DonorOrders(orders, pcust_id) ==
    LET rows == SelectSeq(orders, LAMBDA o : o.associate = pcust_id /\ o.autoship = "N")
    IN  [j \in 1..Len(rows) |->
            [pcust_id |-> pcust_id, order_number |-> rows[j].order_number,
             volume |-> rows[j].volume]]

\* being sponsored by the leader is taken for being enrolled by the leader
\* (mutation of IsPersonallyEnrolled)
SponsoredIsEnough(pcust_info, leader) == pcust_info.sponsor_id = leader
\* `pcust_info.get('enroller_id') == leader_id`
IsPersonallyEnrolled(pcust_info, leader) == pcust_info.enroller_id = leader

PlaceableAsset(pcust_id, move_status) ==
    [pcust_id |-> pcust_id,
     join_date |-> move_status.enrollment_date,
     days_since_join |-> move_status.days_since_enrollment,
     days_remaining |-> move_status.days_remaining]

\* `for pcust_id in frontline_pcusts`
RECURSIVE AssetLoop(_, _, _, _, _, _, _)
AssetLoop(frontline_pcusts, leader, td, orders, today, donors, placeable) ==
    IF frontline_pcusts = <<>>
    THEN [volume_donors |-> donors, placeable_assets |-> placeable]
    ELSE LET pcust_id == Head(frontline_pcusts)
             rest == Tail(frontline_pcusts)
         IN  IF pcust_id \notin Ids(td)
             THEN AssetLoop(rest, leader, td, orders, today, donors, placeable)
             ELSE LET pcust_info == Info(td, pcust_id)
                      move_status == can_pcust_be_moved(pcust_info, today)
                  IN  IF ~move_status.can_move
                      THEN AssetLoop(rest, leader, td, orders, today,
                                     donors \o DonorOrders(orders, pcust_id), placeable)
                      ELSE IF IsPersonallyEnrolled(pcust_info, leader)
                      THEN AssetLoop(rest, leader, td, orders, today, donors,
                                     Append(placeable, PlaceableAsset(pcust_id, move_status)))
                      ELSE AssetLoop(rest, leader, td, orders, today, donors, placeable)

AssetsOutcome(outcome, count, donors, placeable) ==
    [outcome |-> outcome, frontline_pcusts_count |-> count,
     volume_donors |-> donors, placeable_assets |-> placeable]

identify_strategic_assets(leader, td, orders, today) ==
    IF leader \notin Ids(td) THEN AssetsOutcome("Leader not found", 0, <<>>, <<>>)
    ELSE LET tree == build_downline_tree(td)
             ranks == calculate_all_ranks(td, tree)
             direct_sponsees == TreeGet(tree, leader)
             frontline_pcusts ==
                 SelectSeq(direct_sponsees,
                           LAMBDA sponsee_id :
                               /\ sponsee_id \in DOMAIN ranks.cache
                               /\ ranks.cache[sponsee_id] = "PCUST")
             split == AssetLoop(frontline_pcusts, leader, td, orders, today, <<>>, <<>>)
         IN  IF ~ranks.ok THEN AssetsOutcome("RecursionError", 0, <<>>, <<>>)
             ELSE AssetsOutcome("returned", Len(frontline_pcusts),
                                split.volume_donors, split.placeable_assets)

\* ---- inputs ------------------------------------------------------------
MaxChildren == 2    \* members of the directory besides the leader

\* enrolled 60 days before the first as-of date, 61 before the second
ASSET_JOIN_DATE == [kind |-> "str", sep |-> "/", a |-> 12, b |-> 30, c |-> 2023]
AssetAsOfDates == { ToOrdinal(AsOfBase), ToOrdinal(AsOfBase) + 1 }

AssetMember(i, profile, sponsor, enroller, join_date) ==
    [id |-> i, title |-> profile.title, pqv |-> profile.pqv, sponsor_id |-> sponsor,
     enroller_id |-> enroller, join_date |-> join_date]

\* member 1 is the leader; every other member is a Customer or a
\* distributor with volume 40 or 150, is sponsored by the leader or from
\* outside, enrolled by the leader or from outside, and has the join date
\* or none
AssetDirs(n) ==
    UNION { { [i \in 1..(k + 1) |->
                 IF i = 1
                 THEN AssetMember(1, Profile(DISTRIBUTOR_TITLE, 150), EXTERNAL_ID,
                                  EXTERNAL_ID, [kind |-> "empty"])
                 ELSE AssetMember(i, p[i], s[i], en[i], d[i])] :
                p \in [2..(k + 1) -> { Profile(CUSTOMER_TITLE, 500),
                                        Profile(DISTRIBUTOR_TITLE, 40),
                                        Profile(DISTRIBUTOR_TITLE, 150) }],
                s \in [2..(k + 1) -> {1, EXTERNAL_ID}],
                en \in [2..(k + 1) -> {1, EXTERNAL_ID}],
                d \in [2..(k + 1) -> { ASSET_JOIN_DATE, [kind |-> "empty"] }] } :
            k \in 0..n }

\* every member has one order of its own and one autoship order
OrderTable(td) ==
    [j \in 1..(2 * Len(td)) |->
        LET i == (j + 1) \div 2
        IN  [associate |-> td[i].id, autoship |-> IF j % 2 = 1 THEN "N" ELSE "Y",
             order_number |-> j, volume |-> IF j % 2 = 1 THEN 60 ELSE 40]]

InitAssets ==
    /\ team_data \in AssetDirs(MaxChildren)
    /\ volume_details \in {OrderTable(team_data), <<>>}
    /\ leader_id \in {1, EXTERNAL_ID}
    /\ current_date \in AssetAsOfDates
    /\ assets_result = None
    /\ member_info = [title |-> <<>>, join_date |-> [kind |-> "absent"]]
    /\ move_result = None
    /\ rank_pc = "loaded"
    /\ downline_tree = <<>>
    /\ gqv_call = None
    /\ rank_call = None
    /\ PlanIdle
    /\ LevelIdle

\* the parsed enrollment date is stored back into each record (mutation of
\* DirectoryAfterAssets)
JoinDatesStoredBack(td) ==
    [i \in DOMAIN td |-> [td[i] EXCEPT !.join_date = [kind |-> "empty"]]]

\* the caller's directory when the call is over: the call and the functions
\* it calls read the records with `in`, [] and .get, and every assignment
\* and append is to a dictionary or list created inside the call
DirectoryAfterAssets(td) == td

IdentifyStrategicAssets ==
    /\ assets_result = None
    /\ assets_result' = Some(identify_strategic_assets(leader_id, team_data,
                                                       volume_details, current_date))
    /\ team_data' = DirectoryAfterAssets(team_data)
    /\ UNCHANGED <<leader_id, volume_details, rank_pc, downline_tree, gqv_call,
                 rank_call, moveVars, planVars, levelVars>>

NextAssets == IdentifyStrategicAssets

SpecAssets == InitAssets /\ [][NextAssets]_vars

(***************************************************************************)
(*                        LEG DEVELOPMENT PLANNER                          *)
(***************************************************************************)

\* the advancement opportunity of one distributor leg: the first rank above
\* its current rank with a PQV gap in (0, 500], a legs gap in (0, 2] or a
\* GQV gap in (0, 2000]; None when there is no such rank
RECURSIVE NextRankGap(_, _, _, _, _, _)
NextRankGap(k, sponsee_id, current_rank, td, tree, calculated_ranks) ==
    IF k > Len(RANK_HIERARCHY) THEN None
    ELSE IF get_rank_level(RANK_HIERARCHY[k]) <= get_rank_level(current_rank)
    THEN NextRankGap(k + 1, sponsee_id, current_rank, td, tree, calculated_ranks)
    ELSE LET rank == RANK_HIERARCHY[k]
             requirements == RANK_REQUIREMENTS[rank]
             current_pqv == Info(td, sponsee_id).pqv
             gap == Max(0, requirements.min_pqv - current_pqv)
             current_gqv == calculate_gqv_3cl(sponsee_id, td, tree).total
             gqv_gap == Max(0, requirements.min_gqv_3cl - current_gqv)
             current_qualifying_legs ==
                 IF requirements.min_qualified_legs > 0
                    /\ requirements.leg_rank_requirement # "None"
                 THEN QualifiedLegs(sponsee_id,
                                    get_rank_level(requirements.leg_rank_requirement),
                                    tree, calculated_ranks)
                 ELSE 0
             legs_needed == Max(0, requirements.min_qualified_legs - current_qualifying_legs)
         IN  IF \/ (gap > 0 /\ gap <= 500)
                \/ (legs_needed > 0 /\ legs_needed <= 2)
                \/ (gqv_gap > 0 /\ gqv_gap <= 2000)
             THEN Some([sponsee_id |-> sponsee_id, current_rank |-> current_rank,
                        target_rank |-> rank, pqv_gap |-> gap, gqv_gap |-> gqv_gap,
                        legs_gap |-> legs_needed])
             ELSE NextRankGap(k + 1, sponsee_id, current_rank, td, tree, calculated_ranks)

\* `for sponsee_id in direct_sponsees`: Customer legs go to pcust_legs, the
\* distributor legs with an opportunity to underperforming_legs
RECURSIVE AnalyzeLegs(_, _, _, _, _, _, _)
AnalyzeLegs(direct_sponsees, td, tree, calculated_ranks, today, under, pcust_legs) ==
    IF direct_sponsees = <<>>
    THEN [underperforming_legs |-> under, pcust_legs |-> pcust_legs]
    ELSE LET sponsee_id == Head(direct_sponsees)
             rest == Tail(direct_sponsees)
             sponsee_info == Info(td, sponsee_id)
             current_rank == CacheGet(calculated_ranks, sponsee_id)
             next_rank_gap == NextRankGap(1, sponsee_id, current_rank, td, tree,
                                          calculated_ranks)
         IN  IF sponsee_id \notin Ids(td)
             THEN AnalyzeLegs(rest, td, tree, calculated_ranks, today, under, pcust_legs)
             ELSE IF IsPcustTitle(sponsee_info) \/ current_rank = "PCUST"
             THEN AnalyzeLegs(rest, td, tree, calculated_ranks, today, under,
                              Append(pcust_legs,
                                     [sponsee_id |-> sponsee_id,
                                      move_status |-> can_pcust_be_moved(sponsee_info, today)]))
             ELSE AnalyzeLegs(rest, td, tree, calculated_ranks, today,
                              under \o next_rank_gap, pcust_legs)

\* the lines of one group of the Customer information block: a heading, two
\* lines for each of the first three members, a line for the rest
PcustGroup(heading, kind, pcusts) ==
    IF pcusts = <<>> THEN <<>>
    ELSE LET shown == Prefix(pcusts, 3)
             RECURSIVE Lines(_)
             Lines(s) ==
                 IF s = <<>> THEN <<>>
                 ELSE <<Entry(kind, 0, Head(s).sponsee_id, 0),
                        Entry("ENROLLED", 0, Head(s).sponsee_id, 0)>> \o Lines(Tail(s))
         IN  <<Note(heading, Len(pcusts))>> \o Lines(shown)
             \o (IF Len(pcusts) > 3 THEN <<Note("MORE", Len(pcusts) - 3)>> ELSE <<>>)
             \o <<Note("BLANK", 0)>>

\* `if pcust_legs:` the business rule lines, then the movable and the
\* locked Customers
PcustInfo(pcust_legs) ==
    IF pcust_legs = <<>> THEN <<>>
    ELSE <<Note("PCUST_INFO", Len(pcust_legs)), Note("BUSINESS_RULE", 0),
           Note("OPTIONS", 0), Note("OPTION", 1), Note("OPTION", 2), Note("OPTION", 3),
           Note("BLANK", 0)>>
         \o PcustGroup("MOVABLE_PCUSTS", "MOVABLE", SelectSeq(pcust_legs, LAMBDA p : p.move_status.can_move))
         \o PcustGroup("LOCKED_PCUSTS", "LOCKED", SelectSeq(pcust_legs, LAMBDA p : ~p.move_status.can_move))

\* `"... PQV Gap Solution Found" in leg_suggestions[0]`: the first entry of
\* suggest_pqv_moves is its [OK], [PERSONAL] or [TARGET] line
HasSolutionMarker(suggestion) == suggestion.kind = "PQV_GAP_SOLUTION_FOUND"

\* `suggestion.startswith("  (bullet)")`: suggest_pqv_moves writes [MOVE n],
\* [PERSONAL] and [SOLUTION] lines
IsBulletLine(suggestion) == suggestion.kind = "BULLET"

\* the requirement and priority lines of one leg
LegHeader(leg, td) ==
    LET target_requirements == RANK_REQUIREMENTS[leg.target_rank]
    IN  <<Entry("LEG", 0, leg.sponsee_id, leg.pqv_gap),
          Entry("PQV", 0, leg.sponsee_id, leg.pqv_gap)>>
        \o (IF target_requirements.min_gqv_3cl > 0
            THEN <<Entry("GQV", 0, leg.sponsee_id, leg.gqv_gap)>> ELSE <<>>)
        \o (IF target_requirements.min_qualified_legs > 0
            THEN <<Entry("LEGS", 0, leg.sponsee_id, leg.legs_gap)>> ELSE <<>>)
        \o (IF leg.pqv_gap > 0
            THEN <<Entry("PRIORITY_PQV", 0, leg.sponsee_id, leg.pqv_gap)>> ELSE <<>>)
        \o (IF leg.legs_gap > 0
            THEN <<Entry("PRIORITY_LEGS", 0, leg.sponsee_id, leg.legs_gap)>> ELSE <<>>)
        \o (IF leg.gqv_gap > 0
            THEN <<Entry("PRIORITY_GQV", 0, leg.sponsee_id, leg.gqv_gap)>> ELSE <<>>)

\* `for leg in underperforming_legs`
RECURSIVE LegMoveLoop(_, _, _, _, _)
LegMoveLoop(legs, td, donors, used_orders, suggestions) ==
    IF legs = <<>> THEN suggestions
    ELSE LET leg == Head(legs)
             available_orders == Filter(donors, used_orders)
             leg_suggestions == suggest_pqv_moves(leg.pqv_gap, available_orders,
                                                  leg.sponsee_id)
             copied == SelectSeq(SubSeq(leg_suggestions, 3, Len(leg_suggestions)),
                                 IsBulletLine)
         IN  IF HasSolutionMarker(leg_suggestions[1])
             THEN LegMoveLoop(Tail(legs), td, donors,
                              used_orders \o TakeUntil(available_orders, leg.pqv_gap, 0),
                              suggestions \o LegHeader(leg, td)
                                  \o <<Entry("MOVES", 0, leg.sponsee_id, 0)>>
                                  \o [j \in 1..Len(copied) |->
                                        Entry("LEG_MOVE", copied[j].order, leg.sponsee_id,
                                              copied[j].amount)]
                                  \o <<Note("BLANK", 0)>>)
             ELSE LegMoveLoop(Tail(legs), td, donors, used_orders,
                              suggestions \o LegHeader(leg, td)
                                  \o <<Entry("INSUFFICIENT", 0, leg.sponsee_id, leg.pqv_gap)>>
                                  \o <<Note("BLANK", 0)>>)

suggest_leg_moves(leader, td, donors, today) ==
    IF donors = <<>> THEN <<Note("NO_ORDERS", 0)>>
    ELSE LET tree == build_downline_tree(td)
             ranks == calculate_all_ranks(td, tree)
             calculated_ranks == ranks.cache
             legs == AnalyzeLegs(TreeGet(tree, leader), td, tree, calculated_ranks, today,
                                 <<>>, <<>>)
             underperforming_legs == SortedByGap(legs.underperforming_legs)
         IN  IF ~ranks.ok THEN <<Note("RecursionError", 0)>>
             ELSE
             PcustInfo(legs.pcust_legs)
             \o (IF underperforming_legs = <<>>
                 THEN <<Note(IF legs.pcust_legs # <<>> THEN "OK_DISTRIBUTORS" ELSE "OK_LEGS", 0)>>
                 ELSE <<Note("TARGET_LEGS", Len(underperforming_legs)),
                        Note("DISTRIBUTORS", 0), Note("BLANK", 0)>>
                      \o LegMoveLoop(underperforming_legs, td, donors, <<>>, <<>>))

\* ---- inputs ------------------------------------------------------------
MaxDonors == 3      \* orders in the donor pool of the leg planner

\* member 1 is the leader; every other member is a leg of the leader or of
\* somebody outside the directory: a Customer, or a distributor whose next
\* rank is 40, 50 or 0 short in personal volume
LegDirs(n) ==
    UNION { { [i \in 1..(k + 1) |->
                 IF i = 1
                 THEN AssetMember(1, Profile(DISTRIBUTOR_TITLE, 150), EXTERNAL_ID,
                                  EXTERNAL_ID, [kind |-> "empty"])
                 ELSE AssetMember(i, p[i], s[i], 1, ASSET_JOIN_DATE)] :
                p \in [2..(k + 1) -> { Profile(CUSTOMER_TITLE, 500),
                                        Profile(DISTRIBUTOR_TITLE, 60),
                                        Profile(DISTRIBUTOR_TITLE, 150),
                                        Profile(DISTRIBUTOR_TITLE, 300) }],
                s \in [2..(k + 1) -> {1, EXTERNAL_ID}] } : k \in 0..n }

InitLegs ==
    /\ team_data \in LegDirs(MaxChildren)
    /\ volume_donors \in UNION { { PoolOf(v) : v \in [1..k -> {40, 60}] } :
                                    k \in 0..MaxDonors }
    /\ leader_id = 1
    /\ current_date \in AssetAsOfDates
    /\ plan_result = None
    /\ pqv_gap = 0
    /\ potential_legs = <<>>
    /\ legs_gap = 0
    /\ volume_details = <<>>
    /\ assets_result = None
    /\ member_info = [title |-> <<>>, join_date |-> [kind |-> "absent"]]
    /\ move_result = None
    /\ rank_pc = "loaded"
    /\ downline_tree = <<>>
    /\ gqv_call = None
    /\ rank_call = None
    /\ LevelIdle

SuggestLegMoves ==
    /\ plan_result = None
    /\ plan_result' = Some([op |-> "suggest_leg_moves",
                            out |-> suggest_leg_moves(leader_id, team_data, volume_donors,
                                                      current_date)])
    /\ volume_donors' = DonorsAfterCall(volume_donors,
                                        SortedByVolumeDesc(Filter(volume_donors, <<>>)))
    /\ UNCHANGED <<pqv_gap, potential_legs, legs_gap, moveVars, rankVars, levelVars,
                 assetVars>>

NextLegs == SuggestLegMoves

SpecLegs == InitLegs /\ [][NextLegs]_vars

(***************************************************************************)
(*                     CLAIMS: 60-day eligibility rule                     *)
(***************************************************************************)
IsCustomer(info) == Strip(UpperStr(info.title)) = <<"P", "C", "U", "S", "T">>

HasDate(info) == info.join_date.kind \in {"str", "ts"}

\* the calendar date the enrollment text denotes, <<>> when it denotes none
EnrollmentDate(info) ==
    IF info.join_date.kind = "ts" THEN Some(info.join_date.date)
    ELSE IF info.join_date.kind = "str" THEN TryFormats(info.join_date, 1)
    ELSE None

Parsable(info) == EnrollmentDate(info) # None

ElapsedDays == current_date - ToOrdinal(EnrollmentDate(member_info)[1])

\* C6: for a Customer-class member with a parsable enrollment date,
\* can_move is exactly (elapsedDays <= 60) and days_remaining is exactly
\* max(0, 60 - elapsedDays); 59 days gives (true, 1), 60 days (true, 0) and
\* 61 days (false, 0) with the reason saying the window was exceeded.
C6_WindowIsFunctionOfElapsedDays ==
    (move_result # None /\ IsCustomer(member_info) /\ Parsable(member_info)) =>
        LET r == move_result[1] IN
        /\ r.can_move = (ElapsedDays <= 60)
        /\ r.days_remaining = (IF ElapsedDays >= 60 THEN 0 ELSE 60 - ElapsedDays)
        /\ r.days_since_enrollment = Some(ElapsedDays)
        /\ (ElapsedDays = 59 => r.can_move /\ r.days_remaining = 1)
        /\ (ElapsedDays = 60 => r.can_move /\ r.days_remaining = 0)
        /\ (ElapsedDays = 61 => /\ ~r.can_move
                                /\ r.days_remaining = 0
                                /\ r.reason = "Enrollment date exceeded 60-day window")

\* a Customer enrolled exactly 60 days before the as-of date has been evaluated
C6_Witness ==
    /\ move_result # None
    /\ IsCustomer(member_info)
    /\ Parsable(member_info)
    /\ ElapsedDays = 60
    /\ move_result[1].can_move

\* C7: a member the rule cannot evaluate (a non-Customer, or a Customer whose
\* enrollment date is absent or unparseable) always gets a result, and that
\* result is not movable, has zero days remaining and names the cause.
C7_UnevaluableIsNotMovable ==
    move_result # None =>
        LET r == move_result[1] IN
        /\ ~IsCustomer(member_info) =>
              /\ ~r.can_move
              /\ r.days_remaining = 0
              /\ r.reason = "Not a PCUST - move rules do not apply"
        /\ (IsCustomer(member_info) /\ ~HasDate(member_info)
               /\ member_info.join_date.kind \notin {"text", "nat"}) =>
              /\ ~r.can_move
              /\ r.days_remaining = 0
              /\ r.reason = "No enrollment date available"
        /\ (IsCustomer(member_info) /\ member_info.join_date.kind \in {"str", "text"}
               /\ ~Parsable(member_info)) =>
              /\ ~r.can_move
              /\ r.days_remaining = 0
              /\ r.reason = "Cannot parse enrollment date"
        /\ (IsCustomer(member_info) /\ member_info.join_date.kind = "nat") =>
              /\ ~r.can_move
              /\ r.days_remaining = 0
              /\ r.reason = "Invalid enrollment date"

\* a non-Customer whose enrollment date is recent and well formed was refused
C7_Witness ==
    /\ move_result # None
    /\ ~IsCustomer(member_info)
    /\ Parsable(member_info)
    /\ ElapsedDays \in 0..60
    /\ ~move_result[1].can_move

(***************************************************************************)
(*                     CLAIMS: reallocation planner                        *)
(***************************************************************************)
PlanOut == plan_result[1].out
PlanOp == plan_result[1].op

\* the orders listed as moves toward the leader's personal gap, in order
PersonalMoves == SelectSeq(PlanOut, LAMBDA en : en.kind = "MOVE")
\* the orders listed as moves toward a child's gap
LegMoves == SelectSeq(PlanOut, LAMBDA en : en.kind = "LEG_MOVE")
AllMoves == SelectSeq(PlanOut, LAMBDA en : en.kind \in {"MOVE", "LEG_MOVE"})

RECURSIVE AmountOf(_)
AmountOf(entries) ==
    IF entries = <<>> THEN 0 ELSE Head(entries).amount + AmountOf(Tail(entries))

RECURSIVE SetVolume(_, _)
SetVolume(pool, S) ==
    IF S = {} THEN 0
    ELSE LET i == CHOOSE j \in S : TRUE IN pool[i].volume + SetVolume(pool, S \ {i})

ReportsShortfall == \E i \in 1..Len(PlanOut) : PlanOut[i].kind \in {"PERSONAL", "PERSONAL_ADD", "ALERT"}

\* C8: within one planning pass over one donor pool no order is selected for
\* more than one gap: no order number is listed in two moves, whether the
\* two moves go to the leader and a child or to two different children.
C8_NoOrderSelectedTwice ==
    plan_result # None =>
        \A i, j \in 1..Len(AllMoves) :
            i # j => AllMoves[i].order # AllMoves[j].order

\* C9: for a gap > 0 the orders selected for the personal gap are a prefix of
\* the pool sorted by volume descending (each is a pool order, listed in
\* non-increasing volume, and no unselected order is larger than a selected
\* one), and when the selection reaches the gap no subset of the pool with
\* fewer orders reaches it.  Pool <<40, 70>> with gap 100 selects [70, 40]
\* with no shortfall; pool {60, 60, 39} with gap 100 selects both 60s.
C9_LargestFirstMinimalCount ==
    (plan_result # None /\ pqv_gap > 0) =>
        LET sel == PersonalMoves
            picked == { sel[i].order : i \in 1..Len(sel) }
            idx == 1..Len(volume_donors)
        IN
        /\ picked \subseteq idx
        /\ Cardinality(picked) = Len(sel)
        /\ \A i \in 1..Len(sel) : sel[i].amount = volume_donors[sel[i].order].volume
        /\ \A i \in 1..Len(sel) - 1 : sel[i].amount >= sel[i + 1].amount
        /\ \A u \in idx \ picked : \A i \in 1..Len(sel) :
              volume_donors[u].volume <= sel[i].amount
        /\ AmountOf(sel) >= pqv_gap =>
              \A S \in SUBSET idx :
                  Cardinality(S) < Len(sel) => SetVolume(volume_donors, S) < pqv_gap
        /\ (volume_donors = PoolOf(<<40, 70>>) /\ pqv_gap = 100) =>
              /\ [i \in 1..Len(sel) |-> sel[i].order] = <<2, 1>>
              /\ AmountOf(sel) = 110
              /\ ~ReportsShortfall
        /\ (volume_donors \in ScenarioPools /\ Len(volume_donors) = 3 /\ pqv_gap = 100) =>
              /\ Len(sel) = 2
              /\ \A i \in 1..2 : sel[i].amount = 60

\* the planner took the scenario pool <<40, 70>> for a gap of 100
C9_Witness ==
    /\ plan_result # None
    /\ PlanOp = "generate_individual_move_strategy"
    /\ pqv_gap = 100
    /\ volume_donors = PoolOf(<<40, 70>>)
    /\ Len(PersonalMoves) = 2

\* C10 as stated: for every gap > 0 and every pool whose orders sum to at
\* least the gap, suggest_pqv_moves selects orders summing to at least the
\* gap and reports no remaining personal shortfall, however many orders that
\* takes.
C10_AccumulatesUntilGapMet ==
    (plan_result # None /\ PlanOp = "suggest_pqv_moves"
        /\ pqv_gap > 0 /\ VolumeOf(volume_donors) >= pqv_gap) =>
        /\ AmountOf(PersonalMoves) >= pqv_gap
        /\ ~ReportsShortfall

\* some five or fewer orders of the pool reach the gap
FiveOrdersReach(pool, gap) ==
    \E S \in SUBSET (1..Len(pool)) : Cardinality(S) <= 5 /\ SetVolume(pool, S) >= gap

\* C10 as amended: suggest_pqv_moves accumulates orders, largest first, until
\* the running total meets the gap, the pool is exhausted or five orders have
\* been selected: for every gap > 0 and every pool in which five or fewer
\* orders sum to at least the gap, the selected orders sum to at least the gap
\* and no shortfall is reported; never more than five orders are selected, and
\* a shortfall is reported exactly when the selection falls short of the gap.
C10_AccumulatesUpToFiveOrders ==
    (plan_result # None /\ PlanOp = "suggest_pqv_moves" /\ pqv_gap > 0) =>
        /\ FiveOrdersReach(volume_donors, pqv_gap) =>
              /\ AmountOf(PersonalMoves) >= pqv_gap
              /\ ~ReportsShortfall
        /\ Len(PersonalMoves) <= 5
        /\ ReportsShortfall <=> AmountOf(PersonalMoves) < pqv_gap
        /\ ~FiveOrdersReach(volume_donors, pqv_gap) => ReportsShortfall

\* a gap that takes exactly five orders was met by suggest_pqv_moves
C10_Witness ==
    /\ plan_result # None
    /\ PlanOp = "suggest_pqv_moves"
    /\ pqv_gap > 0
    /\ Len(PersonalMoves) = 5
    /\ AmountOf(PersonalMoves) >= pqv_gap
    /\ ~ReportsShortfall

\* the entries that state an unmet personal shortfall
Shortfalls ==
    SelectSeq(PlanOut, LAMBDA en : en.kind \in {"PERSONAL", "PERSONAL_ADD", "ALERT"})

\* C11 as stated: when the pool cannot cover a gap > 0 (an empty pool
\* included) the result states the shortfall, equal to the gap minus the
\* volume of the pool, and a selection that falls short of the gap always
\* comes with a shortfall entry.
C11_ShortfallIsGapMinusPoolVolume ==
    (plan_result # None /\ pqv_gap > 0) =>
        /\ VolumeOf(volume_donors) < pqv_gap =>
              /\ Len(Shortfalls) = 1
              /\ Shortfalls[1].amount = pqv_gap - VolumeOf(volume_donors)
        /\ AmountOf(PersonalMoves) < pqv_gap => Len(Shortfalls) = 1

\* C11 as amended: when the pool cannot cover a gap > 0 (an empty pool
\* included) the result states the shortfall: generate_individual_move_strategy
\* states the gap minus the volume of the pool; suggest_pqv_moves states the
\* gap minus the volume of the orders it selected, which is the gap minus the
\* volume of the pool only when the pool holds at most five orders.  A
\* selection that falls short of the gap always comes with a shortfall entry.
C11_ShortfallIsGapMinusSelectedVolume ==
    (plan_result # None /\ pqv_gap > 0) =>
        /\ VolumeOf(volume_donors) < pqv_gap =>
              /\ Len(Shortfalls) = 1
              /\ PlanOp = "generate_individual_move_strategy" =>
                    Shortfalls[1].amount = pqv_gap - VolumeOf(volume_donors)
              /\ PlanOp = "suggest_pqv_moves" =>
                    /\ Shortfalls[1].amount = pqv_gap - AmountOf(PersonalMoves)
                    /\ Len(volume_donors) <= 5 =>
                          Shortfalls[1].amount = pqv_gap - VolumeOf(volume_donors)
        /\ AmountOf(PersonalMoves) < pqv_gap =>
              /\ Len(Shortfalls) = 1
              /\ Shortfalls[1].amount > 0

\* suggest_pqv_moves listed every order of a pool that cannot cover the gap
\* and stated what is still missing
C11_Witness ==
    /\ plan_result # None
    /\ PlanOp = "suggest_pqv_moves"
    /\ pqv_gap > 0
    /\ VolumeOf(volume_donors) < pqv_gap
    /\ Len(PersonalMoves) >= 2
    /\ Len(Shortfalls) = 1
    /\ Shortfalls[1].amount = pqv_gap - VolumeOf(volume_donors)

\* the gap of the child a move goes to
LegGapOf(id) ==
    LET i == CHOOSE j \in 1..Len(potential_legs) : potential_legs[j].id = id
    IN  potential_legs[i].pqv_gap

\* C12: a gap <= 0 is reported as satisfied and takes no order, for any
\* pool: suggest_pqv_moves returns only the "no personal PQV needed" entry;
\* generate_individual_move_strategy lists nothing for the personal gap and
\* lists no move to a child whose gap is 0.
C12_SatisfiedGapTakesNoOrder ==
    plan_result # None =>
        /\ (PlanOp = "suggest_pqv_moves" /\ pqv_gap <= 0) =>
              PlanOut = <<Note("OK", 0)>>
        /\ (PlanOp = "generate_individual_move_strategy" /\ pqv_gap <= 0) =>
              /\ PersonalMoves = <<>>
              /\ \A i \in 1..Len(PlanOut) :
                    PlanOut[i].kind \notin {"PERSONAL_PQV", "SOLUTION", "PERSONAL", "ALERT"}
        /\ PlanOp = "generate_individual_move_strategy" =>
              \A i \in 1..Len(LegMoves) : LegGapOf(LegMoves[i].to) > 0

\* with orders in the pool, the planner met a personal gap of 0 and the gap
\* 0 of a child without listing a move
C12_Witness ==
    /\ plan_result # None
    /\ PlanOp = "generate_individual_move_strategy"
    /\ pqv_gap = 0
    /\ VolumeOf(volume_donors) > 0
    /\ \E i \in 1..Len(PlanOut) : PlanOut[i].kind = "LEG" /\ PlanOut[i].amount = 0
    /\ AllMoves = <<>>

\* the positions of the output entries of the given kinds
PositionsOf(kinds) == { i \in 1..Len(PlanOut) : PlanOut[i].kind \in kinds }

\* C19: in a pass of generate_individual_move_strategy the moves toward the
\* leader's own gap are listed before anything listed for a child, the
\* children are processed in non-decreasing order of gap, and no order
\* listed for a child is an order the leader's gap received.
C19_LeaderGapServedBeforeChildren ==
    (plan_result # None /\ PlanOp = "generate_individual_move_strategy") =>
        /\ \A i \in PositionsOf({"MOVE"}), j \in PositionsOf({"LEG", "LEG_MOVE"}) : i < j
        /\ \A i, j \in PositionsOf({"LEG"}) :
              i < j => PlanOut[i].amount <= PlanOut[j].amount
        /\ \A i \in 1..Len(LegMoves), j \in 1..Len(PersonalMoves) :
              LegMoves[i].order # PersonalMoves[j].order

(***************************************************************************)
(*               CLAIMS: rank resolution and compressed volume             *)
(***************************************************************************)
RankReturned == rank_call # None /\ rank_call[1].outcome = "returned"
ResolvedRanks == rank_call[1].cache
ResolvedMembers == DOMAIN ResolvedRanks \cap Ids(team_data)

\* the members whose upline reference names member_id
ChildrenOf(td, member_id) ==
    { c \in Ids(td) : Info(td, c).sponsor_id = member_id }

\* The tier at which d is examined below m, found by walking d's upline:
\* 1 for a child of m, one more for every qualifying member passed on the
\* way up, the same for every member below the threshold; 0 when the walk
\* does not reach m.
RECURSIVE TierBelow(_, _, _, _)
TierBelow(d, m, td, fuel) ==
    LET p == Info(td, d).sponsor_id
    IN  IF p = m THEN 1
        ELSE IF fuel = 0 \/ p \notin Ids(td) THEN 0
        ELSE LET t == TierBelow(p, m, td, fuel - 1)
             IN  IF t = 0 THEN 0
                 ELSE IF Info(td, p).pqv >= 50 THEN t + 1 ELSE t

RECURSIVE SumPqv(_, _)
SumPqv(td, S) ==
    IF S = {} THEN 0
    ELSE LET x == CHOOSE x \in S : TRUE
         IN  Info(td, x).pqv + SumPqv(td, S \ {x})

\* the members other than m that qualify and sit within three tiers of m
CompressedTeam(td, m) ==
    { d \in Ids(td) \ {m} :
        /\ Info(td, d).pqv >= 50
        /\ TierBelow(d, m, td, Len(td)) \in 1..3 }

CompressedSum(td, m) == SumPqv(td, CompressedTeam(td, m))

\* all three requirements of a rank, stated over the directory
Qualifies(td, m, rank, ranks) ==
    LET req == RANK_REQUIREMENTS[rank]
        legLevel == IF req.leg_rank_requirement = "None" THEN 0
                    ELSE get_rank_level(req.leg_rank_requirement)
    IN  /\ Info(td, m).pqv >= req.min_pqv
        /\ CompressedSum(td, m) >= req.min_gqv_3cl
        /\ Cardinality({ c \in ChildrenOf(td, m) :
                           get_rank_level(ranks[c]) >= legLevel })
               >= req.min_qualified_legs

RankNames == { RANK_HIERARCHY[i] : i \in 1..Len(RANK_HIERARCHY) }

\* C1: whenever rank resolution returns, every member whose title is
\* Customer (PCUST in any letter case, surrounding blanks ignored) has the
\* lowest rank PCUST, whatever its personal volume, its group volume and its
\* children's ranks are.
C1_CustomerResolvesToPcust ==
    RankReturned =>
        /\ \A m \in ResolvedMembers :
              IsCustomer(Info(team_data, m)) => ResolvedRanks[m] = "PCUST"
        /\ (/\ rank_call[1].op = "get_paid_as_rank"
            /\ rank_call[1].member \in Ids(team_data)
            /\ IsCustomer(Info(team_data, rank_call[1].member)))
           => rank_call[1].rank = "PCUST"

\* a Customer with volume 500 and three children ranked ASC or higher (a
\* Distributor in its place would be SA or higher) is resolved to PCUST
C1_Witness ==
    /\ RankReturned
    /\ rank_call[1].op = "get_paid_as_rank"
    /\ rank_call[1].member \in Ids(team_data)
    /\ LET m == rank_call[1].member
       IN  /\ IsCustomer(Info(team_data, m))
           /\ Info(team_data, m).pqv >= 150
           /\ Cardinality({ c \in ChildrenOf(team_data, m) :
                              get_rank_level(ResolvedRanks[c]) >= 1 }) >= 3
           /\ rank_call[1].rank = "PCUST"

\* C2: whenever rank resolution returns, every non-Customer member has the
\* highest rank of the hierarchy whose personal-volume, group-volume and
\* qualifying-children requirements it all meets (the lowest rank when it
\* meets those of no higher rank); a Distributor with personal volume 150
\* and no children is below SA.
C2_HighestQualifyingRank ==
    RankReturned =>
        \A m \in ResolvedMembers :
            ~IsCustomer(Info(team_data, m)) =>
                LET r == ResolvedRanks[m]
                IN  /\ r \in RankNames
                    /\ r # "PCUST" => Qualifies(team_data, m, r, ResolvedRanks)
                    /\ \A q \in RankNames :
                          get_rank_level(q) > get_rank_level(r)
                             => ~Qualifies(team_data, m, q, ResolvedRanks)
                    /\ (Info(team_data, m).pqv = 150 /\ ChildrenOf(team_data, m) = {})
                          => get_rank_level(r) < get_rank_level("SA")

\* one member reaches SRA on all three requirements while a Distributor
\* with volume 150 and no children stops at BRA
C2_Witness ==
    /\ RankReturned
    /\ \E m \in ResolvedMembers :
          /\ ~IsCustomer(Info(team_data, m))
          /\ ResolvedRanks[m] = "SRA"
    /\ \E m \in ResolvedMembers :
          /\ ~IsCustomer(Info(team_data, m))
          /\ Info(team_data, m).pqv = 150
          /\ ChildrenOf(team_data, m) = {}
          /\ ResolvedRanks[m] = "BRA"

\* the directory with one member's personal volume replaced
WithPqv(td, m, v) ==
    [i \in 1..Len(td) |-> IF td[i].id = m THEN [td[i] EXCEPT !.pqv = v] ELSE td[i]]

RaisedVolumes == {49, 50, 99, 100, 150, 199, 200, 250, 300, 500, 1000}

\* the rank of m in the directory that differs only in m's volume
RankWithPqv(m, v) ==
    LET td == WithPqv(team_data, m, v)
    IN  get_paid_as_rank(m, td, build_downline_tree(td), <<>>)

\* C3: rank resolution is monotonic in personal volume: in a directory that
\* differs only in a larger personal volume of one non-Customer member, that
\* member's resolved rank is never lower.
C3_MonotonicInPersonalVolume ==
    (/\ RankReturned
     /\ rank_call[1].op = "get_paid_as_rank"
     /\ rank_call[1].member \in Ids(team_data)
     /\ ~IsCustomer(Info(team_data, rank_call[1].member)))
    => LET m == rank_call[1].member
       IN  \A v \in RaisedVolumes :
              v > Info(team_data, m).pqv =>
                  /\ RankWithPqv(m, v).ok
                  /\ get_rank_level(RankWithPqv(m, v).rank)
                        >= get_rank_level(rank_call[1].rank)

\* a member with three qualifying children resolved at ASC rises to SA and
\* to SRA with more volume, and stays at ASC with a little more
C3_Witness ==
    /\ RankReturned
    /\ rank_call[1].op = "get_paid_as_rank"
    /\ rank_call[1].member \in Ids(team_data)
    /\ LET m == rank_call[1].member
       IN  /\ ~IsCustomer(Info(team_data, m))
           /\ rank_call[1].rank = "ASC"
           /\ RankWithPqv(m, 99).rank = "ASC"
           /\ RankWithPqv(m, 150).rank = "SA"
           /\ RankWithPqv(m, 200).rank = "SRA"

GqvReturned == gqv_call # None /\ gqv_call[1].outcome = "returned"

\* C4: calculate_gqv_3cl(m) is the 3-tier compressed sum: the personal
\* volumes of the qualifying members (volume >= 50) found within three tiers
\* below m, where a member below the threshold does not use up a tier;
\* nothing deeper contributes and m's own volume is never part of it.
C4_ThreeTierCompressedSum ==
    GqvReturned =>
        gqv_call[1].total = CompressedSum(team_data, gqv_call[1].member)

Occurrences(s, x) == Cardinality({ i \in 1..Len(s) : s[i] = x })

\* C5: in one call of calculate_gqv_3cl no member is visited twice, and the
\* total is the volume of each visited member that passes the threshold,
\* counted once.
C5_NoMemberVisitedTwice ==
    GqvReturned =>
        LET visits == gqv_call[1].visits
            visited == { visits[i] : i \in 1..Len(visits) }
        IN  /\ \A x \in visited : Occurrences(visits, x) = 1
            /\ gqv_call[1].total =
                   SumPqv(team_data, { x \in visited : Info(team_data, x).pqv >= 50 })

\* C15: rank resolution terminates on every directory, one with a loop in
\* the upline references included (two members naming each other, a member
\* naming itself): every call returns a rank, because a member re-entered
\* through the loop is found in the cache.
C15_RankResolutionTerminates ==
    rank_call # None =>
        /\ rank_call[1].outcome = "returned"
        /\ rank_call[1].op = "get_paid_as_rank" => rank_call[1].rank \in RankNames

\* C16: calculate_gqv_3cl terminates on every directory and downline tree,
\* one with a loop whose members all have personal volume below 50
\* included: every call returns a total.
C16_CompressedVolumeTerminates ==
    gqv_call # None => gqv_call[1].outcome = "returned"

(***************************************************************************)
(*                       CLAIMS: hierarchy levels                          *)
(***************************************************************************)
LevelsReturned ==
    /\ levels_call # None
    /\ levels_call[1].op = "calculate_hierarchical_levels"
    /\ levels_call[1].outcome = "returned"

\* m is below the root: its upline walk reaches the root
RECURSIVE BelowRoot(_, _, _, _)
BelowRoot(m, root, td, fuel) ==
    LET p == Info(td, m).sponsor_id
    IN  IF p = root THEN TRUE
        ELSE IF fuel = 0 \/ p \notin Ids(td) THEN FALSE
        ELSE BelowRoot(p, root, td, fuel - 1)

\* the members the selected root does not reach
Unreachable(td, root) ==
    { m \in Ids(td) : m # root /\ ~BelowRoot(m, root, td, Len(td)) }

\* C17: calculate_hierarchical_levels leaves every member unreachable from
\* the selected root without a level and reports exactly those members to
\* the caller as orphans.
C17_UnreachableReportedAsOrphans ==
    (LevelsReturned /\ levels_call[1].root # None) =>
        LET orphaned == Unreachable(team_data, levels_call[1].root[1])
        IN  /\ \A m \in orphaned : m \notin DOMAIN levels_call[1].levels
            /\ levels_call[1].orphans = orphaned

\* no member of the directory is a root candidate
NoRoot(td) == td # <<>> /\ \A i \in 1..Len(td) : ~IsRootCandidate(td, td[i])

\* C18: when no member of a non-empty directory qualifies as a root,
\* hierarchy-level assignment ends in an error outcome and returns no
\* default value.
C18_NoRootIsAnError ==
    (levels_call # None /\ levels_call[1].op = "calculate_hierarchical_levels"
        /\ NoRoot(team_data)) =>
        /\ levels_call[1].outcome # "returned"
        /\ levels_call[1].levels # <<>>

(***************************************************************************)
(*                  CLAIMS: strategic asset classifier                     *)
(***************************************************************************)
AssetsReturned == assets_result # None /\ assets_result[1].outcome = "returned"

DonorSources ==
    { assets_result[1].volume_donors[j].pcust_id :
        j \in 1..Len(assets_result[1].volume_donors) }

Placed ==
    { assets_result[1].placeable_assets[j].pcust_id :
        j \in 1..Len(assets_result[1].placeable_assets) }

ElapsedFor(info) == current_date - ToOrdinal(EnrollmentDate(info)[1])

\* a Customer-class member with a known enrollment date no more than 60
\* days before the as-of date
InsideWindow(info) == IsCustomer(info) /\ Parsable(info) /\ ElapsedFor(info) <= 60

\* a Customer-class member with a known enrollment date more than 60 days
\* before the as-of date
OutsideWindow(info) == IsCustomer(info) /\ Parsable(info) /\ ElapsedFor(info) > 60

ResolvedRankOf(m) ==
    get_paid_as_rank(m, team_data, build_downline_tree(team_data), <<>>).rank

\* C13: every order in the volume_donors list comes from a direct child of
\* the leader that is a Customer-class member enrolled more than 60 days
\* before the as-of date; no order of a child with an unknown enrollment
\* date or of a non-Customer child is listed.
C13_DonorsAreOutsideWindow ==
    AssetsReturned =>
        \A c \in DonorSources :
            /\ c \in Ids(team_data)
            /\ Info(team_data, c).sponsor_id = leader_id
            /\ OutsideWindow(Info(team_data, c))

\* C14: a member is listed in placeable_assets if and only if it is a
\* direct child of the leader with the lowest resolved rank, is inside the
\* 60-day window at the as-of date (a Customer enrolled at most 60 days
\* before it) and has the leader as its enroller; it is listed once, with
\* its elapsed and remaining days, and no member is both a donor source and
\* a placeable asset.
C14_PlaceableIffEnrolledInsideWindow ==
    AssetsReturned =>
        /\ Placed = { c \in Ids(team_data) :
                        /\ Info(team_data, c).sponsor_id = leader_id
                        /\ ResolvedRankOf(c) = "PCUST"
                        /\ InsideWindow(Info(team_data, c))
                        /\ Info(team_data, c).enroller_id = leader_id }
        /\ Cardinality(Placed) = Len(assets_result[1].placeable_assets)
        /\ \A j \in 1..Len(assets_result[1].placeable_assets) :
              LET a == assets_result[1].placeable_assets[j]
                  e == ElapsedFor(Info(team_data, a.pcust_id))
              IN  /\ a.days_since_join = Some(e)
                  /\ a.days_remaining = 60 - e
        /\ Placed \cap DonorSources = {}

\* one child inside the window enrolled by the leader is listed, another
\* inside the window that the leader only sponsors is not
C14_Witness ==
    /\ AssetsReturned
    /\ Placed # {}
    /\ \E c \in Ids(team_data) \ Placed :
          /\ Info(team_data, c).sponsor_id = leader_id
          /\ InsideWindow(Info(team_data, c))
          /\ Info(team_data, c).enroller_id # leader_id

(***************************************************************************)
(*                     CLAIMS: leg development planner                     *)
(***************************************************************************)
\* what is listed for child c under the given kind
ListedFor(kind, c) == SelectSeq(PlanOut, LAMBDA en : en.kind = kind /\ en.to = c)

\* C20: suggest_leg_moves lists the underperforming children in
\* non-decreasing order of gap; for each it lists moves of orders not listed
\* for an earlier child whose volume meets or exceeds the child's gap, and
\* it reports insufficient volume for a child only when the orders not
\* listed for an earlier child cannot cover the gap.
C20_LegsCoveredFromAvailableOrders ==
    (plan_result # None /\ PlanOp = "suggest_leg_moves") =>
        /\ \A i, j \in PositionsOf({"LEG"}) :
              i < j => PlanOut[i].amount <= PlanOut[j].amount
        /\ \A i \in PositionsOf({"LEG"}) :
              LET c == PlanOut[i].to
                  gap == PlanOut[i].amount
                  earlier == { PlanOut[j].order : j \in { k \in PositionsOf({"LEG_MOVE"}) : k < i } }
                  still_available ==
                      { j \in 1..Len(volume_donors) :
                          volume_donors[j].order_number \notin earlier }
                  moves == ListedFor("LEG_MOVE", c)
              IN  IF SetVolume(volume_donors, still_available) < gap
                  THEN ListedFor("INSUFFICIENT", c) # <<>> /\ moves = <<>>
                  ELSE /\ ListedFor("INSUFFICIENT", c) = <<>>
                       /\ AmountOf(moves) >= gap
                       /\ \A m \in 1..Len(moves) : moves[m].order \notin earlier

(***************************************************************************)
(*                         CLAIMS: downline tree                           *)
(***************************************************************************)
\* build_downline_tree has just returned
TreeBuilt == rank_pc = "built"

\* the child lists that hold member m
ListsHolding(tree, m) ==
    { k \in DOMAIN tree : \E j \in 1..Len(tree[k]) : tree[k][j] = m }

\* C22: every parent key of the tree returned by build_downline_tree is a
\* member of the directory, and a member whose upline reference is blank or
\* names nobody in the directory is in no child list.
C22_ParentsAreDirectoryMembers ==
    TreeBuilt =>
        /\ DOMAIN downline_tree \subseteq Ids(team_data)
        /\ \A i \in 1..Len(team_data) :
              team_data[i].sponsor_id \notin Ids(team_data) =>
                  ListsHolding(downline_tree, team_data[i].id) = {}

\* the orders in which a directory of n records can be inserted
InsertionOrders(n) == { p \in [1..n -> 1..n] : \A i, j \in 1..n : p[i] = p[j] => i = j }
Reordered(td, p) == [i \in 1..Len(td) |-> td[p[i]]]

\* C23: whatever the insertion order of the records, build_downline_tree
\* returns the same tree; in it every child list is strictly ascending in
\* the identifiers (so free of duplicates) and no member is in two child
\* lists.
C23_TreeIsSortedAndOrderIndependent ==
    TreeBuilt =>
        \A p \in InsertionOrders(Len(team_data)) :
            LET tree == build_downline_tree(Reordered(team_data, p))
            IN  /\ tree = downline_tree
                /\ \A k \in DOMAIN tree :
                      \A i, j \in 1..Len(tree[k]) : i < j => tree[k][i] < tree[k][j]
                /\ \A m \in Ids(team_data) : Cardinality(ListsHolding(tree, m)) <= 1

\* a tree with two child lists, one of them holding two members
C23_Witness ==
    /\ TreeBuilt
    /\ Cardinality(DOMAIN downline_tree) >= 2
    /\ \E k \in DOMAIN downline_tree : Len(downline_tree[k]) >= 2

(***************************************************************************)
(*                   CLAIMS: hierarchy level values                        *)
(***************************************************************************)
\* the number of upline steps from m to the root; more than the directory
\* holds members when the upline walk does not reach the root
RECURSIVE UplineSteps(_, _, _, _)
UplineSteps(m, root, td, fuel) ==
    IF m = root THEN 0
    ELSE IF fuel = 0 \/ Info(td, m).sponsor_id \notin Ids(td) THEN Len(td) + 1
    ELSE 1 + UplineSteps(Info(td, m).sponsor_id, root, td, fuel - 1)

\* The call returns; it starts at the first member in directory order whose
\* upline is blank or outside the directory, gives a level to that member
\* and to the members below it and to nobody else, and the level of a
\* member is `tenths` tenths for each of its upline steps to the root.
LevelsFollowUpline(tenths) ==
    (levels_call # None /\ levels_call[1].op = "calculate_hierarchical_levels") =>
        /\ levels_call[1].outcome = "returned"
        /\ levels_call[1].root # None =>
              LET root == levels_call[1].root[1]
                  levels == levels_call[1].levels
                  at == CHOOSE i \in 1..Len(team_data) : team_data[i].id = root
                  NoUpline(i) == \/ team_data[i].sponsor_id = NO_SPONSOR
                                 \/ team_data[i].sponsor_id \notin Ids(team_data)
              IN  /\ NoUpline(at)
                  /\ \A i \in 1..(at - 1) : ~NoUpline(i)
                  /\ DOMAIN levels = Ids(team_data) \ Unreachable(team_data, root)
                  /\ \A m \in DOMAIN levels :
                        levels[m] = tenths * UplineSteps(m, root, team_data, Len(team_data))

\* C24 as stated: calculate_hierarchical_levels starts at the first member
\* in directory order without an upline in the directory, gives it level 0
\* and each direct child of a level-L member level L+1, so that a member's
\* level is its number of upline steps to the root (ten tenths a step), and
\* it terminates on every directory, cyclic ones included.
C24_LevelIsUplineSteps == LevelsFollowUpline(10)

\* C24 as the code has it: the same, with each direct child of a level-L
\* member at level L + 0.1, so that a member's level is one tenth of its
\* number of upline steps to the root.
C24_LevelIsTenthOfUplineSteps == LevelsFollowUpline(1)

\* levels were given two steps below the root
C24_Witness ==
    /\ LevelsReturned
    /\ levels_call[1].root # None
    /\ \E m \in DOMAIN levels_call[1].levels :
          /\ levels_call[1].levels[m] = 2
          /\ UplineSteps(m, levels_call[1].root[1], team_data, Len(team_data)) = 2

(***************************************************************************)
(*                   CLAIMS: resolution order and cache                    *)
(***************************************************************************)
RankLog == rank_call[1].log

\* C25: in a resolution pass that returns, whenever the rank requirements
\* of a member are evaluated every direct child of the member is in the
\* cache with the rank it has at the end of the pass, so the count of
\* qualifying children never falls back on the PCUST default for a child.
C25_ChildrenResolvedBeforeParent ==
    RankReturned =>
        \A i \in 1..Len(RankLog) :
            RankLog[i].ev = "eval" =>
                \A c \in ChildrenOf(team_data, RankLog[i].member) :
                    /\ c \in DOMAIN RankLog[i].cache
                    /\ RankLog[i].cache[c] = ResolvedRanks[c]

\* the requirements of a member were evaluated whose child holds a rank
\* above the default
C25_Witness ==
    /\ RankReturned
    /\ \E i \in 1..Len(RankLog) :
          /\ RankLog[i].ev = "eval"
          /\ \E c \in ChildrenOf(team_data, RankLog[i].member) :
                c \in DOMAIN RankLog[i].cache /\ RankLog[i].cache[c] # "PCUST"

\* C26: in a resolution pass sharing one cache a member's entry is written
\* once: after the write every further call for the member returns the
\* cached rank, without evaluating or writing again.
C26_CacheEntryWrittenOnce ==
    RankReturned =>
        \A i, j \in 1..Len(RankLog) :
            (i < j /\ RankLog[i].ev = "write" /\ RankLog[j].member = RankLog[i].member) =>
                /\ RankLog[j].ev = "hit"
                /\ RankLog[j].rank = RankLog[i].rank

\* a pass over the directory met a member whose rank was already written
C26_Witness ==
    /\ RankReturned
    /\ rank_call[1].op = "calculate_all_ranks"
    /\ \E i, j \in 1..Len(RankLog) :
          /\ i < j
          /\ RankLog[i].ev = "write"
          /\ RankLog[j].ev = "hit"
          /\ RankLog[j].member = RankLog[i].member
          /\ RankLog[i].rank # "PCUST"

\* C27: when calculate_all_ranks returns, it returns the same mapping for
\* every order in which the directory can be iterated, and the rank of each
\* member in it is the one get_paid_as_rank returns for the member alone
\* with an empty cache.
C27_RanksIndependentOfOrder ==
    (RankReturned /\ rank_call[1].op = "calculate_all_ranks") =>
        /\ \A p \in InsertionOrders(Len(team_data)) :
              LET td == Reordered(team_data, p)
                  pass == calculate_all_ranks(td, build_downline_tree(td))
              IN  pass.ok /\ pass.cache = ResolvedRanks
        /\ \A m \in Ids(team_data) :
              LET alone == get_paid_as_rank(m, team_data, downline_tree, <<>>)
              IN  alone.ok /\ alone.rank = ResolvedRanks[m]

\* a member whose rank rests on the ranks of three children
C27_Witness ==
    /\ RankReturned
    /\ rank_call[1].op = "calculate_all_ranks"
    /\ \E m \in Ids(team_data) :
          /\ ResolvedRanks[m] = "SA"
          /\ Cardinality(ChildrenOf(team_data, m)) >= 3

(***************************************************************************)
(*              CLAIMS: compressed volume and downline volume              *)
(***************************************************************************)
\* calculate_gqv_3cl and the resolved rank of m after the volume of d is
\* set to v, everything else as in the directory
GqvWithPqv(m, d, v) ==
    LET td == WithPqv(team_data, d, v)
    IN  calculate_gqv_3cl(m, td, build_downline_tree(td))
RankAfterPqv(m, d, v) ==
    LET td == WithPqv(team_data, d, v)
    IN  get_paid_as_rank(m, td, build_downline_tree(td), <<>>)

\* raising the volume of d to v lowers neither the compressed volume of m
\* nor m's resolved rank, which was `before`
NotLoweredBy(m, d, v, before) ==
    /\ \A after \in {GqvWithPqv(m, d, v)} :
          after.ok /\ after.total >= gqv_call[1].total
    /\ \A after \in {RankAfterPqv(m, d, v)} :
          (before.ok /\ after.ok) =>
              get_rank_level(after.rank) >= get_rank_level(before.rank)

\* the volumes d is raised to
DownlineRaises == {50, 100}

\* every raise of a member below m that satisfies `allowed` lowers neither
\* the compressed volume nor the resolved rank of m
RaisesBelow(m, allowed(_, _)) ==
    \A before \in {get_paid_as_rank(m, team_data, downline_tree, <<>>)} :
        \A d \in Ids(team_data) \ {m} :
            BelowRoot(d, m, team_data, Len(team_data)) =>
                \A v \in DownlineRaises :
                    (v > Info(team_data, d).pqv /\ allowed(Info(team_data, d).pqv, v)) =>
                        NotLoweredBy(m, d, v, before)

AnyRaise(from, to) == TRUE
SameCompressionClass(from, to) == (from >= 50) = (to >= 50)

\* C28 as stated: for a member m and a member d of m's downline, raising
\* the personal volume of d, everything else fixed, never lowers
\* calculate_gqv_3cl(m) nor m's resolved rank.
C28_MonotoneInDownlineVolume ==
    GqvReturned => RaisesBelow(gqv_call[1].member, AnyRaise)

\* C28 as the code has it: the same for a raise that leaves d on the same
\* side of the 50 threshold of the compression rule.
C28_MonotoneWithinCompressionClass ==
    GqvReturned => RaisesBelow(gqv_call[1].member, SameCompressionClass)

\* a member three tiers below m counts, and counts for more once raised
C28_Witness ==
    /\ GqvReturned
    /\ \E d \in Ids(team_data) \ {gqv_call[1].member} :
          /\ TierBelow(d, gqv_call[1].member, team_data, Len(team_data)) = 3
          /\ Info(team_data, d).pqv = 50
          /\ GqvWithPqv(gqv_call[1].member, d, 100).total = gqv_call[1].total + 50

(***************************************************************************)
(*                       QUALIFICATION ANALYSIS                            *)
(***************************************************************************)

AnalysisReturned ==
    /\ rank_call # None
    /\ rank_call[1].op = "analyze_member_qualifications"
    /\ rank_call[1].outcome = "returned"
    /\ rank_call[1].member \in Ids(team_data)

\* C29: for every member of the directory, with the ranks of
\* calculate_all_ranks on the same directory, analyze_member_qualifications
\* reports as next rank the rank immediately above the member's resolved rank
\* with at least one strictly positive gap, and reports no next rank only for
\* a member at the highest rank.
C29_NextRankIsImmediatelyAbove ==
    AnalysisReturned =>
        LET a == rank_call[1]
            level == get_rank_level(a.rank)
        IN  /\ a.rank = CacheGet(a.cache, a.member)
            /\ IF level + 1 = Len(RANK_HIERARCHY)
               THEN a.next_achievable_rank = None
               ELSE /\ a.next_achievable_rank = Some(RANK_HIERARCHY[level + 2])
                    /\ a.gaps_to_next_rank # None
                    /\ \/ a.gaps_to_next_rank[1].pqv_gap > 0
                       \/ a.gaps_to_next_rank[1].gqv_gap > 0
                       \/ a.gaps_to_next_rank[1].leg_gap > 0

(***************************************************************************)
(*                  THE DIRECTORY IS ONLY READ                             *)
(***************************************************************************)

====
